---- MODULE Spec2Model ----
(***************************************************************************)
(* versioninfo_helper: the FILETIME <--> datetime translation and the      *)
(* builders of the VSVersionInfo tree (src/versioninfo_helper/__init__.py).*)
(*                                                                         *)
(* Python integers are unbounded while TLC's are 32 bits wide, and a       *)
(* FILETIME is about 10^17.  An integer of the program is therefore a      *)
(* two's complement numeral of IntLimbs hexadecimal digits, least          *)
(* significant digit first; no value the model computes comes near the     *)
(* ends of that range, so the arithmetic below is exact.  Python's >> and  *)
(* & act on the infinite two's complement numeral, which this restricts.   *)
(***************************************************************************)
EXTENDS Integers, Sequences, FiniteSets, TLC

VARIABLES input, value, trace

vars == <<input, value, trace>>

(***************************************************************************)
(* Python int                                                              *)
(***************************************************************************)
IntLimbs == 20

LimbBits == 2 * 2

LimbBase == 2 ^ LimbBits

Limbs == 1..IntLimbs

BigZero == [i \in Limbs |-> 0]

RECURSIVE NatLimbs(_, _)
\* the digits of the natural number n, from digit i on
NatLimbs(n, i) ==
    IF i > IntLimbs THEN <<>>
    ELSE <<n % LimbBase>> \o NatLimbs(n \div LimbBase, i + 1)

RECURSIVE AddLimbs(_, _, _, _)
AddLimbs(a, b, i, carry) ==
    IF i > IntLimbs THEN <<>>
    ELSE LET s == a[i] + b[i] + carry
         IN  <<s % LimbBase>> \o AddLimbs(a, b, i + 1, s \div LimbBase)

BigAdd(a, b) == AddLimbs(a, b, 1, 0)

BigNot(a) == [i \in Limbs |-> LimbBase - 1 - a[i]]

BigOne == NatLimbs(1, 1)

BigNeg(a) == AddLimbs(BigNot(a), BigZero, 1, 1)

BigSub(a, b) == AddLimbs(a, BigNot(b), 1, 1)

BigIsNeg(a) == a[IntLimbs] >= LimbBase \div 2

BigIsZero(a) == \A i \in Limbs : a[i] = 0

BigLt(a, b) == BigIsNeg(BigSub(a, b))

BigLe(a, b) == ~BigLt(b, a)

BigAbs(a) == IF BigIsNeg(a) THEN BigNeg(a) ELSE a

\* a 32-bit integer of the model as an integer of the program
ToBig(n) == IF n >= 0 THEN NatLimbs(n, 1) ELSE BigNeg(NatLimbs(-n, 1))

RECURSIVE MulLimbs(_, _, _, _)
MulLimbs(a, c, i, carry) ==
    IF i > IntLimbs THEN <<>>
    ELSE LET p == a[i] * c + carry
         IN  <<p % LimbBase>> \o MulLimbs(a, c, i + 1, p \div LimbBase)

\* a * c for 0 <= c < 2^27
BigMulSmall(a, c) == MulLimbs(a, c, 1, 0)

RECURSIVE DivLimbs(_, _, _, _)
\* long division of the natural number a by d, from digit i down; the
\* quotient's digits most significant first, then the remainder
DivLimbs(a, d, i, rem) ==
    IF i = 0 THEN <<rem>>
    ELSE LET cur == rem * LimbBase + a[i]
         IN  <<cur \div d>> \o DivLimbs(a, d, i - 1, cur % d)

NatDivMod(a, d) ==
    LET qr == DivLimbs(a, d, IntLimbs, 0)
    IN  [q |-> [i \in Limbs |-> qr[IntLimbs + 1 - i]], r |-> qr[IntLimbs + 1]]

\* Python's divmod(a, d) for 0 < d < 2^27: the quotient is floored and the
\* remainder has the sign of d
BigDivMod(a, d) ==
    IF ~BigIsNeg(a) THEN NatDivMod(a, d)
    ELSE LET m == NatDivMod(BigNeg(a), d)
         IN  IF m.r = 0 THEN [q |-> BigNeg(m.q), r |-> 0]
             ELSE [q |-> BigNeg(BigAdd(m.q, BigOne)), r |-> d - m.r]

\* a << k
BigShl(a, k) ==
    LET n == k \div LimbBits
        s == [i \in Limbs |-> IF i > n THEN a[i - n] ELSE 0]
    IN  BigMulSmall(s, 2 ^ (k % LimbBits))

\* a >> k, Python's arithmetic shift: floor(a / 2^k)
BigShr(a, k) ==
    LET n    == k \div LimbBits
        fill == IF BigIsNeg(a) THEN LimbBase - 1 ELSE 0
        s    == [i \in Limbs |-> IF i + n <= IntLimbs THEN a[i + n] ELSE fill]
    IN  BigDivMod(s, 2 ^ (k % LimbBits)).q

RECURSIVE AndBits(_, _, _)
AndBits(x, y, n) ==
    IF n = 0 THEN 0
    ELSE (x % 2) * (y % 2) + 2 * AndBits(x \div 2, y \div 2, n - 1)

\* a & b
BigAnd(a, b) == [i \in Limbs |-> AndBits(a[i], b[i], LimbBits)]

RECURSIVE TopLimb(_, _)
TopLimb(a, i) == IF i = 0 \/ a[i] # 0 THEN i ELSE TopLimb(a, i - 1)

RECURSIVE SmallBitLen(_)
SmallBitLen(n) == IF n = 0 THEN 0 ELSE 1 + SmallBitLen(n \div 2)

\* int.bit_length() of a natural number
BigBitLen(a) ==
    LET t == TopLimb(a, IntLimbs)
    IN  IF t = 0 THEN 0 ELSE LimbBits * (t - 1) + SmallBitLen(a[t])

RECURSIVE NatValue(_, _)
\* the natural number whose digits are those of a from digit i up
NatValue(a, i) ==
    IF i > TopLimb(a, IntLimbs) THEN 0
    ELSE a[i] + LimbBase * NatValue(a, i + 1)

\* an integer of the program of magnitude below 2^31 as a 32-bit integer
FromBig(a) ==
    IF BigIsNeg(a) THEN 0 - NatValue(BigNeg(a), 1) ELSE NatValue(a, 1)

(***************************************************************************)
(* Python float: an IEEE 754 double, (-1)^neg * m * 2^(-k) with m = 0 or    *)
(* 2^52 <= m <= 2^53.                                                      *)
(***************************************************************************)
MantissaBits == 53

\* int / int (long_true_divide): the quotient n / d correctly rounded to the
\* nearest double, ties to even; 0 < d < 2^27 and |n / d| < 2^53
TrueDivide(n, d) ==
    LET a  == BigAbs(n)
        k1 == MantissaBits + SmallBitLen(d) - BigBitLen(a)
        q1 == NatDivMod(BigShl(a, k1), d).q
        k  == IF BigBitLen(q1) > MantissaBits THEN k1 - 1 ELSE k1
        qr == NatDivMod(BigShl(a, k), d)
        up == \/ 2 * qr.r > d
              \/ 2 * qr.r = d /\ qr.q[1] % 2 = 1
    IN  IF BigIsZero(a) THEN [neg |-> FALSE, m |-> BigZero, k |-> 0]
        ELSE [neg |-> BigIsNeg(n),
              m   |-> IF up THEN BigAdd(qr.q, BigOne) ELSE qr.q,
              k   |-> k]

\* int(x) of a float x: rounds toward zero
FloatToInt(x) ==
    LET t == BigShr(x.m, x.k)
    IN  IF x.neg THEN BigNeg(t) ELSE t

(***************************************************************************)
(* datetime.datetime: day is the proleptic Gregorian ordinal (toordinal()),*)
(* second the second of the day (hour, minute and second), tzinfo the time *)
(* zone: None, a tzinfo whose utcoffset() is None, or a fixed offset of    *)
(* s + us / 10^6 seconds east of UTC (a timedelta strictly between -24 h   *)
(* and 24 h).                                                              *)
(***************************************************************************)
SecondsPerDay == 24 * 60 * 60

MicrosPerSecond == 1000 * 1000

MINYEAR_ORDINAL == 1

\* date(9999, 12, 31).toordinal()
MAXYEAR_ORDINAL == 3652059

\* date(1970, 1, 1).toordinal()
UNIX_EPOCH_ORDINAL == 719163

TzNone == [kind |-> "None", s |-> 0, us |-> 0]

TzNoOffset == [kind |-> "no_utcoffset", s |-> 0, us |-> 0]

FixedOffset(s, us) == [kind |-> "fixed", s |-> s, us |-> us]

\* timezone.utc
utc == FixedOffset(0, 0)

\* the utcoffset of the zone of the machine, which Python applies to a
\* datetime that has none
LocalOffset == FixedOffset(60 * 60, 0)

Datetime(day, second, microsecond, tzinfo) ==
    [day |-> day, second |-> second, microsecond |-> microsecond,
     tzinfo |-> tzinfo]

\* dt.tzinfo is None or dt.tzinfo.utcoffset(dt) is None
IsNaive(dt) == dt.tzinfo.kind # "fixed"

\* dt.replace(tzinfo=tz)
ReplaceTzinfo(dt, tz) == [dt EXCEPT !.tzinfo = tz]

\* dt.replace(microsecond=us)
ReplaceMicrosecond(dt, us) == [dt EXCEPT !.microsecond = us]

\* (dt - _EPOCH) in microseconds, _EPOCH being 1970-01-01T00:00:00 UTC
MicrosSinceEpoch(dt) ==
    LET off  == IF IsNaive(dt) THEN LocalOffset ELSE dt.tzinfo
        days == dt.day - UNIX_EPOCH_ORDINAL
        secs == BigAdd(BigMulSmall(ToBig(days), SecondsPerDay),
                       ToBig(dt.second - off.s))
    IN  BigAdd(BigMulSmall(secs, MicrosPerSecond),
               ToBig(dt.microsecond - off.us))

\* dt.timestamp(): (dt - _EPOCH).total_seconds(), a float
timestamp(dt) == TrueDivide(MicrosSinceEpoch(dt), MicrosPerSecond)

\* datetime.fromtimestamp(s, timezone.utc) for an int s: the second s of the
\* Unix epoch as a UTC datetime, or an error when its year is not in 1..9999
fromtimestamp(s) ==
    LET dm  == BigDivMod(s, SecondsPerDay)
        lo  == ToBig(MINYEAR_ORDINAL - UNIX_EPOCH_ORDINAL)
        hi  == ToBig(MAXYEAR_ORDINAL - UNIX_EPOCH_ORDINAL)
    IN  IF BigLt(dm.q, lo) \/ BigLt(hi, dm.q)
        THEN [kind |-> "error", exc |-> "year out of range"]
        ELSE [kind |-> "datetime",
              dt   |-> Datetime(UNIX_EPOCH_ORDINAL + FromBig(dm.q), dm.r, 0, utc)]

(***************************************************************************)
(* FILETIME <--> datetime translation                                      *)
(***************************************************************************)
\* January 1, 1970 as filetime: 116444736000000000
EPOCH_AS_FILETIME == BigMulSmall(ToBig(1164447360), 100000000)

HUNDREDS_OF_NS == 10000000

\* datetime_to_filetime without the offset of the Unix epoch
datetime_to_filetime_NoEpoch(dt0) ==
    LET dt == IF IsNaive(dt0) THEN ReplaceTzinfo(dt0, utc) ELSE dt0
        filetime == BigMulSmall(FloatToInt(timestamp(dt)), HUNDREDS_OF_NS)
    IN  BigAdd(filetime, ToBig(dt.microsecond * 10))

\* datetime_to_filetime without forcing a naive datetime to UTC
datetime_to_filetime_LocalTime(dt) ==
    LET filetime == BigAdd(EPOCH_AS_FILETIME,
                           BigMulSmall(FloatToInt(timestamp(dt)), HUNDREDS_OF_NS))
    IN  BigAdd(filetime, ToBig(dt.microsecond * 10))

\* datetime_to_filetime counting nanoseconds in place of 100-nanosecond
\* intervals
datetime_to_filetime_Nanoseconds(dt0) ==
    LET dt == IF IsNaive(dt0) THEN ReplaceTzinfo(dt0, utc) ELSE dt0
        ns == BigMulSmall(BigMulSmall(FloatToInt(timestamp(dt)), 1000),
                          MicrosPerSecond)
        filetime == BigAdd(BigMulSmall(EPOCH_AS_FILETIME, 100), ns)
    IN  BigAdd(filetime, ToBig(dt.microsecond * 1000))

datetime_to_filetime(dt0) ==
    LET dt == IF IsNaive(dt0) THEN ReplaceTzinfo(dt0, utc) ELSE dt0
        filetime == BigAdd(EPOCH_AS_FILETIME,
                           BigMulSmall(FloatToInt(timestamp(dt)), HUNDREDS_OF_NS))
    IN  BigAdd(filetime, ToBig(dt.microsecond * 10))

\* filetime_to_datetime with a division that rounds toward zero
filetime_to_datetime_TruncatedDivision(filetime) ==
    LET x     == BigSub(filetime, EPOCH_AS_FILETIME)
        m     == NatDivMod(BigAbs(x), HUNDREDS_OF_NS)
        s     == IF BigIsNeg(x) THEN BigNeg(m.q) ELSE m.q
        ns100 == IF BigIsNeg(x) THEN 0 - m.r ELSE m.r
        at    == fromtimestamp(s)
    IN  IF at.kind = "error" THEN at
        ELSE [at EXCEPT !.dt = ReplaceMicrosecond(at.dt, ns100 \div 10)]

filetime_to_datetime(filetime) ==
    LET dm    == BigDivMod(BigSub(filetime, EPOCH_AS_FILETIME), HUNDREDS_OF_NS)
        s     == dm.q
        ns100 == dm.r
        at    == fromtimestamp(s)
    IN  IF at.kind = "error" THEN at
        ELSE [at EXCEPT !.dt = ReplaceMicrosecond(at.dt, ns100 \div 10)]

\* 0xFFFFFFFF
MASK32 == BigSub(BigShl(BigOne, 32), BigOne)

\* datetime_to_filetime_tuple with a mask one hexadecimal digit short
datetime_to_filetime_tuple_ShortMask(dt) ==
    LET filetime == datetime_to_filetime(dt)
    IN  <<BigShr(filetime, 32),
          BigAnd(filetime, BigSub(BigShl(BigOne, 28), BigOne))>>

datetime_to_filetime_tuple(dt) ==
    LET filetime == datetime_to_filetime(dt)
    IN  <<BigShr(filetime, 32), BigAnd(filetime, MASK32)>>

(***************************************************************************)
(* create_StringFileInfo_table.  A str or None argument is None, or        *)
(* Str(s); the keyword arguments of a call are the (key, value) pairs in   *)
(* the order the caller wrote them, no key twice.                          *)
(***************************************************************************)
None == <<>>

Str(s) == <<s>>

\* the keyword parameters of create_StringFileInfo_table, as declared
WellKnownFields ==
    <<"Comments", "CompanyName", "FileDescription", "FileVersion",
      "InternalName", "LegalCopyright", "LegalTrademarks", "OriginalFilename",
      "PrivateBuild", "ProductName", "ProductVersion", "SpecialBuild">>

IsWellKnown(key) == \E i \in 1..Len(WellKnownFields) : WellKnownFields[i] = key

HexDigit ==
    <<"0", "1", "2", "3", "4", "5", "6", "7", "8", "9", "A", "B", "C", "D",
      "E", "F">>

RECURSIVE Hex(_)
\* format(n, "X") for n >= 0
Hex(n) ==
    IF n < 16 THEN HexDigit[n + 1]
    ELSE Hex(n \div 16) \o HexDigit[(n % 16) + 1]

RECURSIVE ZeroFill(_, _)
ZeroFill(digits, width) ==
    IF Len(digits) >= width THEN digits ELSE ZeroFill("0" \o digits, width)

\* f"{n:04X}": upper case, zero-filled to four characters, the sign counted
Format04X(n) ==
    IF n < 0 THEN "-" \o ZeroFill(Hex(0 - n), 3) ELSE ZeroFill(Hex(n), 4)

\* the value bound to the keyword parameter key: the default is None
Parameter(kwargs, key) ==
    IF \E i \in 1..Len(kwargs) : kwargs[i][1] = key
    THEN kwargs[CHOOSE i \in 1..Len(kwargs) : kwargs[i][1] = key][2]
    ELSE None

\* **additional_strings: the keywords that name no parameter, in call order
additional_strings(kwargs) ==
    LET extra(pair) == ~IsWellKnown(pair[1])
    IN  SelectSeq(kwargs, extra)

StringStruct(name, val) == [name |-> name, val |-> val]

StringTable(name, kids) == [kind |-> "StringTable", name |-> name, kids |-> kids]

RECURSIVE WellKnownKids(_, _)
\* the chain of "if <field> is not None: kids.append(...)", from field i on
WellKnownKids(kwargs, i) ==
    IF i > Len(WellKnownFields) THEN <<>>
    ELSE LET key == WellKnownFields[i]
             val == Parameter(kwargs, key)
         IN  (IF val # None THEN <<StringStruct(key, val)>> ELSE <<>>)
             \o WellKnownKids(kwargs, i + 1)

RECURSIVE AdditionalKids(_, _)
AdditionalKids(items, i) ==
    IF i > Len(items) THEN <<>>
    ELSE <<StringStruct(items[i][1], items[i][2])>> \o AdditionalKids(items, i + 1)

\* create_StringFileInfo_table formatting the name without zero fill
create_StringFileInfo_table_NoZeroFill(lang_id, charset_id, kwargs) ==
    StringTable(Hex(lang_id) \o Hex(charset_id),
                WellKnownKids(kwargs, 1)
                    \o AdditionalKids(additional_strings(kwargs), 1))

\* create_StringFileInfo_table naming the table charset first
create_StringFileInfo_table_CharsetFirst(lang_id, charset_id, kwargs) ==
    StringTable(Format04X(charset_id) \o Format04X(lang_id),
                WellKnownKids(kwargs, 1)
                    \o AdditionalKids(additional_strings(kwargs), 1))

\* create_StringFileInfo_table passing every keyword on in call order
create_StringFileInfo_table_CallOrder(lang_id, charset_id, kwargs) ==
    LET supplied(pair) == ~IsWellKnown(pair[1]) \/ pair[2] # None
    IN  StringTable(Format04X(lang_id) \o Format04X(charset_id),
                    AdditionalKids(SelectSeq(kwargs, supplied), 1))

\* create_StringFileInfo_table skipping the additional strings that are None
create_StringFileInfo_table_SkipNoneExtras(lang_id, charset_id, kwargs) ==
    LET present(pair) == pair[2] # None
    IN  StringTable(Format04X(lang_id) \o Format04X(charset_id),
                    WellKnownKids(kwargs, 1)
                        \o AdditionalKids(
                               SelectSeq(additional_strings(kwargs), present), 1))

create_StringFileInfo_table(lang_id, charset_id, kwargs) ==
    LET name == Format04X(lang_id) \o Format04X(charset_id)
        kids == WellKnownKids(kwargs, 1)
                    \o AdditionalKids(additional_strings(kwargs), 1)
    IN  StringTable(name, kids)

(***************************************************************************)
(* create_VarStruct.  A locale or a charset argument is an int or a member *)
(* of the IntEnum LanguageID or CharsetCode: type is its class, name the   *)
(* name of the member (none for a plain int), value its number.            *)
(***************************************************************************)
PyInt(v) == [type |-> "int", name |-> "", value |-> v]

IntEnum(type, name, v) == [type |-> type, name |-> name, value |-> v]

\* int(x): the number itself, and the number of a member of an IntEnum
int(x) == x.value

VarStruct(name, kids) == [kind |-> "VarStruct", name |-> name, kids |-> kids]

RECURSIVE ExtendPairs(_, _)
\* "for lid, cid in additional_pairs: kids.extend([int(lid), int(cid)])",
\* from pair i on
ExtendPairs(additional_pairs, i) ==
    IF i > Len(additional_pairs) THEN <<>>
    ELSE <<int(additional_pairs[i][1]), int(additional_pairs[i][2])>>
             \o ExtendPairs(additional_pairs, i + 1)

RECURSIVE ExtendPairsCharsetFirst(_, _)
ExtendPairsCharsetFirst(additional_pairs, i) ==
    IF i > Len(additional_pairs) THEN <<>>
    ELSE <<int(additional_pairs[i][2]), int(additional_pairs[i][1])>>
             \o ExtendPairsCharsetFirst(additional_pairs, i + 1)

\* create_VarStruct writing the charset of an additional pair before its
\* locale
create_VarStruct_CharsetFirst(lang_id, charset_id, additional_pairs) ==
    VarStruct("Translation",
              <<int(lang_id), int(charset_id)>>
                  \o ExtendPairsCharsetFirst(additional_pairs, 1))

create_VarStruct(lang_id, charset_id, additional_pairs) ==
    LET name == "Translation"
        kids == <<int(lang_id), int(charset_id)>>
                    \o ExtendPairs(additional_pairs, 1)
    IN  VarStruct(name, kids)

(***************************************************************************)
(* The inputs the functions are applied to.                                *)
(***************************************************************************)
\* days before and after each of the days below
DayWindow == 1

MaxSecond == 1

MaxMicro == 1

MaxTick == 2

\* the most calls made on one input, each on the result of the one before
MaxCalls == 2

\* 0001-01-01, 1601-01-01, 1970-01-01, 2020-01-01, 2514-05-30 (2^34 seconds
\* after 1970 falls on it, at 01:53:04) and 9999-12-31
DayOfYear1 == MINYEAR_ORDINAL

DayOf1601 == UNIX_EPOCH_ORDINAL - 134774

DayOf2020 == UNIX_EPOCH_ORDINAL + 18262

DayOf2514 == UNIX_EPOCH_ORDINAL + 198841

AnchorDays ==
    {DayOfYear1, DayOf1601, UNIX_EPOCH_ORDINAL, DayOf2020, DayOf2514,
     MAXYEAR_ORDINAL}

Days ==
    {d \in UNION {(a - DayWindow)..(a + DayWindow) : a \in AnchorDays} :
        MINYEAR_ORDINAL <= d /\ d <= MAXYEAR_ORDINAL}

SecondOf2Pow34 == 3600 + 53 * 60 + 4

SecondsOfDay == (0..MaxSecond) \cup {SecondOf2Pow34 - 1, SecondsPerDay - 1}

Micros == (0..MaxMicro) \cup {MicrosPerSecond \div 2, MicrosPerSecond - 1}

\* UTC, -05:00, +03:00, +00:00:00.5, -00:00:00.000001 and the two ends of
\* the range of timezone()
Offsets ==
    {utc, FixedOffset(0 - 5 * 3600, 0), FixedOffset(3 * 3600, 0),
     FixedOffset(0, MicrosPerSecond \div 2),
     FixedOffset(0 - 1, MicrosPerSecond - 1),
     FixedOffset(SecondsPerDay - 1, MicrosPerSecond - 1),
     FixedOffset(1 - SecondsPerDay, 1)}

Tzinfos == {TzNone, TzNoOffset} \cup Offsets

Datetimes ==
    {Datetime(d, s, us, tz) :
        d \in Days, s \in SecondsOfDay, us \in Micros, tz \in Tzinfos}

\* the FILETIME of midnight UTC of a day
FiletimeOfDay(day) ==
    BigAdd(EPOCH_AS_FILETIME,
           BigMulSmall(BigMulSmall(ToBig(day - UNIX_EPOCH_ORDINAL), SecondsPerDay),
                       HUNDREDS_OF_NS))

TickDeltas ==
    LET t == (0..MaxTick) \cup {10, HUNDREDS_OF_NS \div 2, HUNDREDS_OF_NS - 1,
                                HUNDREDS_OF_NS}
    IN  t \cup {0 - x : x \in t}

\* around the midnights of the days above, and of the day after 9999-12-31
Filetimes ==
    {BigAdd(FiletimeOfDay(d), ToBig(t)) :
        d \in AnchorDays \cup {MAXYEAR_ORDINAL + 1}, t \in TickDeltas}

DatetimeValue(dt) == [kind |-> "datetime", dt |-> dt]

IntValue(n) == [kind |-> "int", n |-> n]

TupleValue(t) == [kind |-> "tuple", high |-> t[1], low |-> t[2]]

FiletimeInputs ==
    {DatetimeValue(dt) : dt \in Datetimes} \cup {IntValue(f) : f \in Filetimes}

(***************************************************************************)
(* One input, and the functions applied to it and then to each result.     *)
(***************************************************************************)
InitFiletime ==
    /\ input \in FiletimeInputs
    /\ value = input
    /\ trace = <<>>

DatetimeToFiletime ==
    /\ Len(trace) < MaxCalls
    /\ value.kind = "datetime"
    /\ value' = IntValue(datetime_to_filetime(value.dt))
    /\ trace' = Append(trace, "datetime_to_filetime")
    /\ UNCHANGED input

FiletimeToDatetime ==
    /\ Len(trace) < MaxCalls
    /\ value.kind = "int"
    /\ value' = filetime_to_datetime(value.n)
    /\ trace' = Append(trace, "filetime_to_datetime")
    /\ UNCHANGED input

DatetimeToFiletimeTuple ==
    /\ Len(trace) < MaxCalls
    /\ value.kind = "datetime"
    /\ value' = TupleValue(datetime_to_filetime_tuple(value.dt))
    /\ trace' = Append(trace, "datetime_to_filetime_tuple")
    /\ UNCHANGED input

NextFiletime ==
    \/ DatetimeToFiletime
    \/ FiletimeToDatetime
    \/ DatetimeToFiletimeTuple

SpecFiletime == InitFiletime /\ [][NextFiletime]_vars

(***************************************************************************)
(* The calls of create_StringFileInfo_table.                               *)
(***************************************************************************)
MaxId == 1

MaxKwargs == 2

\* 0x000A, 0x00FF, Greek (0x0408), US_English (0x0409), Unicode (0x04B0),
\* 0x1000, the largest 16-bit code and the integer after it
IdSamples ==
    (0..MaxId) \cup {10, 255, 1032, 1033, 1200, 4096, 2 ^ 16 - 1, 2 ^ 16}

KeywordSamples ==
    {"Comments", "CompanyName", "SpecialBuild", "ExtraField", "Vendor"}

RECURSIVE KwargsOfLen(_)
\* the keyword arguments of a call with n keywords, each None or a string
KwargsOfLen(n) ==
    IF n = 0 THEN {<<>>}
    ELSE {Append(kw, <<k, v>>) :
            kw \in KwargsOfLen(n - 1),
            k \in KeywordSamples, v \in {None, Str(""), Str("text")}}

Kwargs ==
    {kw \in UNION {KwargsOfLen(n) : n \in 0..MaxKwargs} :
        \A i, j \in 1..Len(kw) : kw[i][1] = kw[j][1] => i = j}

TableCall(lang_id, charset_id, kwargs) ==
    [kind |-> "call", lang_id |-> lang_id, charset_id |-> charset_id,
     kwargs |-> kwargs]

InitStringTable ==
    /\ input \in {TableCall(l, c, kw) :
                    l \in IdSamples, c \in IdSamples, kw \in Kwargs}
    /\ value = input
    /\ trace = <<>>

CreateStringFileInfoTable ==
    /\ trace = <<>>
    /\ value.kind = "call"
    /\ value' = create_StringFileInfo_table(value.lang_id, value.charset_id,
                                            value.kwargs)
    /\ trace' = <<"create_StringFileInfo_table">>
    /\ UNCHANGED input

NextStringTable == CreateStringFileInfoTable

SpecStringTable == InitStringTable /\ [][NextStringTable]_vars

(***************************************************************************)
(* The calls of create_VarStruct.                                          *)
(***************************************************************************)
MaxPairs == 2

LangArgs ==
    {PyInt(0), PyInt(1033), PyInt(2 ^ 16),
     IntEnum("LanguageID", "Greek", 1032),
     IntEnum("LanguageID", "Japanese", 1041)}

CharsetArgs ==
    {PyInt(0), PyInt(1200),
     IntEnum("CharsetCode", "Japan", 932),
     IntEnum("CharsetCode", "Unicode", 1200)}

RECURSIVE PairsOfLen(_)
PairsOfLen(n) ==
    IF n = 0 THEN {<<>>}
    ELSE {Append(pairs, <<l, c>>) :
            pairs \in PairsOfLen(n - 1), l \in LangArgs, c \in CharsetArgs}

VarStructCall(lang_id, charset_id, additional_pairs) ==
    [kind |-> "call", lang_id |-> lang_id, charset_id |-> charset_id,
     additional_pairs |-> additional_pairs]

InitVarStruct ==
    /\ input \in {VarStructCall(l, c, pairs) :
                    l \in LangArgs, c \in CharsetArgs,
                    pairs \in UNION {PairsOfLen(n) : n \in 0..MaxPairs}}
    /\ value = input
    /\ trace = <<>>

CreateVarStruct ==
    /\ trace = <<>>
    /\ value.kind = "call"
    /\ value' = create_VarStruct(value.lang_id, value.charset_id,
                                 value.additional_pairs)
    /\ trace' = <<"create_VarStruct">>
    /\ UNCHANGED input

NextVarStruct == CreateVarStruct

SpecVarStruct == InitVarStruct /\ [][NextVarStruct]_vars

(***************************************************************************)
(* create_VersionInfo.  An optional argument is None or Some(x).  A        *)
(* version tuple is the tuple of its elements, a date a datetime or a      *)
(* tuple (high, low), strings a sequence of blocks; a block is the dict    *)
(* with the keys in its DOMAIN, its fields the (key, value) items of a     *)
(* mapping in their order.  The outcome of a call is the tree it returns   *)
(* or the exception it raises, with the calls it made on the way (calls):  *)
(* the record constructors, the reads of the wall clock and of the blocks. *)
(***************************************************************************)
Some(x) == <<x>>

\* int(FileFlags.VS_FFI_FILEFLAGSMASK)
VS_FFI_FILEFLAGSMASK == 63

\* int(FileFlags.VS_FF_None)
VS_FF_None == 0

\* int(FileOS.VOS_NT_WINDOWS32)
VOS_NT_WINDOWS32 == 262148

\* int(FileType.VFT_APP)
VFT_APP == 1

\* int(FileSubtype.VFT2_UNKNOWN)
VFT2_UNKNOWN == 0

FixedFileInfo(filevers, prodvers, mask, flags, OS, fileType, subtype, date) ==
    [kind |-> "FixedFileInfo", filevers |-> filevers, prodvers |-> prodvers,
     mask |-> mask, flags |-> flags, OS |-> OS, fileType |-> fileType,
     subtype |-> subtype, date |-> date]

VarFileInfo(kids) == [kind |-> "VarFileInfo", kids |-> kids]

StringFileInfo(kids) == [kind |-> "StringFileInfo", kids |-> kids]

VSVersionInfo(ffi, kids) == [kind |-> "VSVersionInfo", ffi |-> ffi, kids |-> kids]

Returned(ret, calls) == [kind |-> "returned", ret |-> ret, calls |-> calls]

Raised(exc, calls) == [kind |-> "raised", exc |-> exc, calls |-> calls]

\* all(0 <= i < 2**16 for i in version_tuple)
AllInRange(version_tuple) ==
    \A k \in 1..Len(version_tuple) :
        0 <= version_tuple[k] /\ version_tuple[k] < 2 ^ 16

\* "assert condition" raises AssertionError when the condition is false,
\* unless the interpreter runs with -O, which compiles the statement away
\* (__debug__ is then False)
AssertRaises(debug, condition) == debug /\ ~condition

\* "if prodvers is None: prodvers = (0, 0, 0, 0)"
ResolveProdvers_Zeros(prodvers, filevers) ==
    IF prodvers = None THEN <<0, 0, 0, 0>> ELSE prodvers[1]

\* "if prodvers is None: prodvers = filevers"
ResolveProdvers(prodvers, filevers) ==
    IF prodvers = None THEN filevers ELSE prodvers[1]

\* "if arg is None: arg = 0"
Default_Zero(arg, default) == IF arg = None THEN 0 ELSE arg[1]

\* "if arg is None: arg = default", the argument kept to its low 16 bits
Default_LowWord(arg, default) ==
    IF arg = None THEN default ELSE arg[1] % (2 ^ 16)

\* "if arg is None: arg = default"
Default(arg, default) == IF arg = None THEN default ELSE arg[1]

\* isinstance(date, datetime)
IsDatetime(date) == date.kind = "datetime"

\* the date resolved with the supplied pair split again at 32 bits
ResolveDate_SplitPair(date, now) ==
    IF date = None
    THEN [date |-> datetime_to_filetime_tuple(now), calls |-> <<"datetime.now">>]
    ELSE IF IsDatetime(date[1])
    THEN [date |-> datetime_to_filetime_tuple(date[1].dt), calls |-> <<>>]
    ELSE [date  |-> <<BigShr(date[1].low, 32), BigAnd(date[1].low, MASK32)>>,
          calls |-> <<>>]

\* the date resolved with the wall clock read on every call
ResolveDate_EagerClock(date, now) ==
    LET today == datetime_to_filetime_tuple(now)
    IN  IF date = None
        THEN [date |-> today, calls |-> <<"datetime.now">>]
        ELSE IF IsDatetime(date[1])
        THEN [date  |-> datetime_to_filetime_tuple(date[1].dt),
              calls |-> <<"datetime.now">>]
        ELSE [date  |-> <<date[1].high, date[1].low>>,
              calls |-> <<"datetime.now">>]

\* the date of the record and the reads of the wall clock made for it; now
\* is what datetime.now(timezone.utc) returns
ResolveDate(date, now) ==
    IF date = None
    THEN [date |-> datetime_to_filetime_tuple(now), calls |-> <<"datetime.now">>]
    ELSE IF IsDatetime(date[1])
    THEN [date |-> datetime_to_filetime_tuple(date[1].dt), calls |-> <<>>]
    ELSE [date |-> <<date[1].high, date[1].low>>, calls |-> <<>>]

\* a str that holds no integer literal, such as 'abc'
PyStr(text) == [type |-> "str", name |-> text, value |-> 0]

\* int(x) returns: x is an int or a member of an IntEnum; int() of a str
\* that holds no integer literal raises ValueError
IsIntegral(x) == x.type # "str"

\* no keyword of **fields is taken for one the call already binds
BoundTwice_Never(fields) == FALSE

\* the keyword key of **fields names a parameter the call already binds
BoundTwice(fields) ==
    \E k \in 1..Len(fields) : fields[k][1] \in {"lang_id", "charset_id"}

RECURSIVE Repeat(_, _)
Repeat(call, n) == IF n = 0 THEN <<>> ELSE <<call>> \o Repeat(call, n - 1)

\* the exception the statements of the loop body raise for the block info,
\* in their order; "" when they raise none
BlockError(info) ==
    IF "lang_id" \notin DOMAIN info THEN "KeyError"
    ELSE IF ~IsIntegral(info.lang_id) THEN "ValueError"
    ELSE IF "charset_id" \notin DOMAIN info THEN "KeyError"
    ELSE IF ~IsIntegral(info.charset_id) THEN "ValueError"
    ELSE IF "fields" \notin DOMAIN info THEN "KeyError"
    ELSE IF BoundTwice(info.fields) THEN "TypeError"
    ELSE ""

RECURSIVE StringBlocks_Accumulated(_, _, _, _, _)
\* the loop with each translation record holding the pairs of the blocks
\* so far
StringBlocks_Accumulated(strings, i, string_infos, var_infos, calls) ==
    IF i > Len(strings)
    THEN [kind |-> "done", string_infos |-> string_infos,
          var_infos |-> var_infos, calls |-> calls]
    ELSE LET info == strings[i]
             read == Append(calls, "info")
             exc  == BlockError(info)
         IN  IF exc # "" THEN Raised(exc, read)
             ELSE LET lang_id    == int(info.lang_id)
                      charset_id == int(info.charset_id)
                      table      == create_StringFileInfo_table(
                                        lang_id, charset_id, info.fields)
                      earlier    == IF var_infos = <<>> THEN <<>>
                                    ELSE var_infos[Len(var_infos)].kids
                      var        == VarStruct("Translation",
                                              earlier \o <<lang_id, charset_id>>)
                  IN  StringBlocks_Accumulated(
                          strings, i + 1, Append(string_infos, table),
                          Append(var_infos, var),
                          read \o Repeat("StringStruct", Len(table.kids))
                               \o <<"StringTable", "VarStruct">>)

RECURSIVE StringBlocks_SkipFailed(_, _, _, _, _)
\* the loop going on to the next block when a block fails
StringBlocks_SkipFailed(strings, i, string_infos, var_infos, calls) ==
    IF i > Len(strings)
    THEN [kind |-> "done", string_infos |-> string_infos,
          var_infos |-> var_infos, calls |-> calls]
    ELSE LET info == strings[i]
             read == Append(calls, "info")
         IN  IF BlockError(info) # ""
             THEN StringBlocks_SkipFailed(strings, i + 1, string_infos,
                                          var_infos, read)
             ELSE LET lang_id    == int(info.lang_id)
                      charset_id == int(info.charset_id)
                      table      == create_StringFileInfo_table(
                                        lang_id, charset_id, info.fields)
                      var        == create_VarStruct(
                                        PyInt(lang_id), PyInt(charset_id), <<>>)
                  IN  StringBlocks_SkipFailed(
                          strings, i + 1, Append(string_infos, table),
                          Append(var_infos, var),
                          read \o Repeat("StringStruct", Len(table.kids))
                               \o <<"StringTable", "VarStruct">>)

RECURSIVE StringBlocks(_, _, _, _, _)
\* "for info in strings: ..." from block i on
StringBlocks(strings, i, string_infos, var_infos, calls) ==
    IF i > Len(strings)
    THEN [kind |-> "done", string_infos |-> string_infos,
          var_infos |-> var_infos, calls |-> calls]
    ELSE LET info == strings[i]
             read == Append(calls, "info")
             exc  == BlockError(info)
         IN  IF exc # "" THEN Raised(exc, read)
             ELSE LET lang_id    == int(info.lang_id)
                      charset_id == int(info.charset_id)
                      table      == create_StringFileInfo_table(
                                        lang_id, charset_id, info.fields)
                      var        == create_VarStruct(
                                        PyInt(lang_id), PyInt(charset_id), <<>>)
                  IN  StringBlocks(strings, i + 1,
                                   Append(string_infos, table),
                                   Append(var_infos, var),
                                   read \o Repeat("StringStruct", Len(table.kids))
                                        \o <<"StringTable", "VarStruct">>)

\* the two containers built whether strings is None or not
VersionInfoKids_AlwaysContainers(strings, built) ==
    LET blocks == StringBlocks(IF strings = None THEN <<>> ELSE strings[1],
                               1, <<>>, <<>>, built)
    IN  IF blocks.kind = "raised" THEN blocks
        ELSE [kind  |-> "done",
              kids  |-> <<VarFileInfo(blocks.var_infos),
                          StringFileInfo(blocks.string_infos)>>,
              calls |-> blocks.calls \o <<"VarFileInfo", "StringFileInfo">>]

\* "if strings:" in place of "if strings is not None:"
VersionInfoKids_Truthiness(strings, built) ==
    IF strings = None \/ strings[1] = <<>>
    THEN [kind |-> "done", kids |-> <<>>, calls |-> built]
    ELSE LET blocks == StringBlocks(strings[1], 1, <<>>, <<>>, built)
         IN  IF blocks.kind = "raised" THEN blocks
             ELSE [kind  |-> "done",
                   kids  |-> <<VarFileInfo(blocks.var_infos),
                               StringFileInfo(blocks.string_infos)>>,
                   calls |-> blocks.calls \o <<"VarFileInfo", "StringFileInfo">>]

\* "kids = []; if strings is not None: ...": the children of the tree, after
\* the calls in built
VersionInfoKids(strings, built) ==
    IF strings = None
    THEN [kind |-> "done", kids |-> <<>>, calls |-> built]
    ELSE LET blocks == StringBlocks(strings[1], 1, <<>>, <<>>, built)
         IN  IF blocks.kind = "raised" THEN blocks
             ELSE [kind  |-> "done",
                   kids  |-> <<VarFileInfo(blocks.var_infos),
                               StringFileInfo(blocks.string_infos)>>,
                   calls |-> blocks.calls \o <<"VarFileInfo", "StringFileInfo">>]

\* create_VersionInfo from the defaults of the flags on, the version tuples
\* being resolved
BuildVersionInfo(filevers, prodvers, mask, flags, OS, fileType, subtype, date, strings, now) ==
    LET dwFileDate == ResolveDate(date, now)
        ffi == FixedFileInfo(filevers, prodvers,
                             Default(mask, VS_FFI_FILEFLAGSMASK),
                             Default(flags, VS_FF_None),
                             Default(OS, VOS_NT_WINDOWS32),
                             Default(fileType, VFT_APP),
                             Default(subtype, VFT2_UNKNOWN),
                             dwFileDate.date)
        kids == VersionInfoKids(strings, Append(dwFileDate.calls, "FixedFileInfo"))
    IN  IF kids.kind = "raised" THEN kids
        ELSE Returned(VSVersionInfo(ffi, kids.kids),
                      Append(kids.calls, "VSVersionInfo"))

\* create_VersionInfo asserting the ranges of the version tuples after the
\* tree is built
create_VersionInfo_LateAssert(filevers, prodvers, mask, flags, OS, fileType, subtype, date, strings, now, debug) ==
    LET dwFileVersion_tuple == IF filevers = None THEN <<0, 0, 0, 0>>
                               ELSE filevers[1]
        dwProductVersion_tuple == ResolveProdvers(prodvers, dwFileVersion_tuple)
        built == BuildVersionInfo(dwFileVersion_tuple, dwProductVersion_tuple,
                                  mask, flags, OS, fileType, subtype, date,
                                  strings, now)
    IN  IF \/ AssertRaises(debug, AllInRange(dwFileVersion_tuple))
           \/ AssertRaises(debug, AllInRange(dwProductVersion_tuple))
        THEN Raised("AssertionError", built.calls)
        ELSE built

\* now is the wall clock at the call, debug is __debug__
create_VersionInfo(filevers, prodvers, mask, flags, OS, fileType, subtype, date, strings, now, debug) ==
    LET dwFileVersion_tuple == IF filevers = None THEN <<0, 0, 0, 0>>
                               ELSE filevers[1]
        dwProductVersion_tuple == ResolveProdvers(prodvers, dwFileVersion_tuple)
    IN  IF AssertRaises(debug, AllInRange(dwFileVersion_tuple))
        THEN Raised("AssertionError", <<>>)
        ELSE IF AssertRaises(debug, AllInRange(dwProductVersion_tuple))
        THEN Raised("AssertionError", <<>>)
        ELSE BuildVersionInfo(dwFileVersion_tuple, dwProductVersion_tuple,
                              mask, flags, OS, fileType, subtype, date,
                              strings, now)

(***************************************************************************)
(* The calls of create_VersionInfo: at most MaxArgs of the nine arguments  *)
(* are supplied, or all of them; the wall clock and __debug__ are those of *)
(* the interpreter that runs the call.                                     *)
(***************************************************************************)
MaxArgs == 2

ArgNames ==
    {"filevers", "prodvers", "mask", "flags", "OS", "fileType", "subtype",
     "date", "strings"}

\* four elements in range, an element out of range, three and five elements
VersionTuples ==
    {<<0, 0, 0, 0>>, <<1, 2, 3, 4>>, <<5, 6, 7, 8>>,
     <<2 ^ 16 - 1, 2 ^ 16 - 1, 2 ^ 16 - 1, 2 ^ 16 - 1>>,
     <<2 ^ 16, 0, 0, 0>>, <<0, 0, 0, 0 - 1>>, <<1, 2, 3>>, <<1, 2, 3, 4, 5>>}

\* members of the enumerations and integers that are none
FlagSamples == {0 - 1, 0, 1, 9, 2 ^ 16 + 63}

\* 2020-01-01T00:00:00 in UTC, the same fields without a zone, a datetime
\* east of UTC; the pair of 2020-01-01, the pair of zeros, a pair of
\* integers that are no 32-bit words
DateSamples ==
    {DatetimeValue(Datetime(DayOf2020, 0, 0, utc)),
     DatetimeValue(Datetime(DayOf2020, 0, 0, TzNone)),
     DatetimeValue(Datetime(DayOf2020, 1, 1, FixedOffset(3 * 3600, 0))),
     TupleValue(<<ToBig(30785590), ToBig(1761935360)>>),
     TupleValue(<<BigZero, BigZero>>),
     TupleValue(<<ToBig(0 - 1), BigShl(BigOne, 32)>>)}

Block(lang_id, charset_id, fields) ==
    [lang_id |-> lang_id, charset_id |-> charset_id, fields |-> fields]

EnglishBlock ==
    Block(IntEnum("LanguageID", "US_English", 1033),
          IntEnum("CharsetCode", "Unicode", 1200),
          <<<<"ProductName", Str("text")>>, <<"ExtraField", Str("text")>>,
            <<"CompanyName", Str("text")>>>>)

GreekBlock == Block(PyInt(1032), PyInt(0), <<>>)

\* a block without the key 'lang_id' and one without 'charset_id', each
\* after a block that converts; a locale and a charset that are no integers;
\* a block whose fields hold the key 'charset_id'
BadBlockSamples ==
    {<<EnglishBlock, [charset_id |-> PyInt(0), fields |-> <<>>]>>,
     <<EnglishBlock, GreekBlock, [lang_id |-> PyInt(1032), fields |-> <<>>]>>,
     <<GreekBlock, Block(PyStr("abc"), PyInt(1200), <<>>)>>,
     <<Block(PyInt(1033), PyStr("abc"), <<>>), GreekBlock>>,
     <<Block(PyInt(1033), PyInt(1200),
             <<<<"Comments", Str("text")>>, <<"charset_id", Str("text")>>>>)>>}

\* no blocks, one block, two blocks, a block without the key 'fields', a
\* block whose fields hold the key 'lang_id'
StringsSamples ==
    {<<>>, <<EnglishBlock>>, <<EnglishBlock, GreekBlock>>,
     <<[lang_id |-> PyInt(1033), charset_id |-> PyInt(1200)]>>,
     <<GreekBlock,
       Block(PyInt(1033), PyInt(1200), <<<<"lang_id", Str("text")>>>>)>>}
        \cup BadBlockSamples

ArgSamples(name) ==
    CASE name \in {"filevers", "prodvers"} -> {Some(t) : t \in VersionTuples}
      [] name = "date"    -> {Some(d) : d \in DateSamples}
      [] name = "strings" -> {Some(b) : b \in StringsSamples}
      [] OTHER            -> {Some(n) : n \in FlagSamples}

NoArgs == [name \in ArgNames |-> None]

RECURSIVE ArgsUpTo(_)
\* the calls that supply at most n arguments
ArgsUpTo(n) ==
    IF n = 0 THEN {NoArgs}
    ELSE LET fewer == ArgsUpTo(n - 1)
         IN  fewer \cup UNION {{[args EXCEPT ![name] = x] :
                                   args \in fewer, x \in ArgSamples(name)} :
                               name \in ArgNames}

\* the call of test_create_VersionInfo_with_full_details
FullDetails ==
    [filevers |-> Some(<<1, 2, 3, 4>>), prodvers |-> Some(<<5, 6, 7, 8>>),
     mask |-> Some(63), flags |-> Some(9), OS |-> Some(VOS_NT_WINDOWS32),
     fileType |-> Some(VFT_APP), subtype |-> Some(VFT2_UNKNOWN),
     date |-> Some(DatetimeValue(Datetime(DayOf2020, 0, 0, utc))),
     strings |-> Some(<<EnglishBlock>>)]

Clocks ==
    {Datetime(DayOf2020, 0, 0, utc),
     Datetime(DayOf2020 + 1, SecondsPerDay - 1, MicrosPerSecond - 1, utc)}

VersionInfoCall(args, now, debug) ==
    [kind |-> "call", args |-> args, now |-> now, debug |-> debug]

InitVersionInfo ==
    /\ input \in {VersionInfoCall(args, now, debug) :
                    args \in ArgsUpTo(MaxArgs) \cup {FullDetails},
                    now \in Clocks, debug \in BOOLEAN}
    /\ value = input
    /\ trace = <<>>

CreateVersionInfo ==
    /\ trace = <<>>
    /\ value.kind = "call"
    /\ value' = create_VersionInfo(
                    value.args.filevers, value.args.prodvers, value.args.mask,
                    value.args.flags, value.args.OS, value.args.fileType,
                    value.args.subtype, value.args.date, value.args.strings,
                    value.now, value.debug)
    /\ trace' = <<"create_VersionInfo">>
    /\ UNCHANGED input

NextVersionInfo == CreateVersionInfo

SpecVersionInfo == InitVersionInfo /\ [][NextVersionInfo]_vars

(***************************************************************************)
(* _backport.deprecated.  An object is a class (kind "type"), a function   *)
(* or an instance; callable tells whether it can be called, writable       *)
(* whether its attributes can be set (those of a builtin cannot), attrs    *)
(* holds its attributes, None for one it does not have.                    *)
(***************************************************************************)
AttrNames ==
    {"__name__", "__new__", "__init_subclass__", "__wrapped__",
     "__deprecated__"}

Object(kind, callable, writable, attrs) ==
    [kind |-> kind, callable |-> callable, writable |-> writable,
     attrs |-> attrs]

Message(type, text) == [type |-> type, text |-> text]

\* the exception of "obj.attr = ..." on an object that takes no attributes
SetAttrError(obj) == IF obj.kind = "type" THEN "TypeError" ELSE "AttributeError"

\* the function that functools.wraps(arg) makes of a new function: the
\* attributes of arg copied, __wrapped__ set to arg
Wraps(arg) ==
    Object("function", TRUE, TRUE,
           [name \in AttrNames |->
               IF name = "__wrapped__" THEN Str("arg")
               ELSE IF name \in {"__name__", "__deprecated__"}
               THEN arg.attrs[name]
               ELSE None])

\* the outcome of deprecated(message, category=category)(arg): the object
\* returned and arg as the call leaves it, or the exception
Decorated(ret, arg) == [kind |-> "returned", ret |-> ret, arg |-> arg]

\* deprecated marking only the object it is applied to
deprecated_ArgOnly(message, category, arg) ==
    IF message.type # "str" THEN Raised("TypeError", <<>>)
    ELSE LET msg    == Str(message.text)
             marked == [arg EXCEPT !.attrs["__deprecated__"] = msg]
         IN  IF category = None
             THEN IF arg.writable THEN Decorated(marked, marked)
                  ELSE Raised(SetAttrError(arg), <<>>)
             ELSE IF arg.kind = "type"
             THEN IF ~arg.writable THEN Raised(SetAttrError(arg), <<>>)
                  ELSE LET patched ==
                               [marked EXCEPT
                                   !.attrs["__new__"] = Str("warn, then __new__"),
                                   !.attrs["__init_subclass__"] =
                                       Str("warn, then __init_subclass__")]
                       IN  Decorated(patched, patched)
             ELSE IF arg.callable
             THEN IF ~arg.writable THEN Raised(SetAttrError(arg), <<>>)
                  ELSE Decorated(Wraps(arg), marked)
             ELSE Raised("TypeError", <<>>)

deprecated(message, category, arg) ==
    IF message.type # "str" THEN Raised("TypeError", <<>>)
    ELSE LET msg    == Str(message.text)
             marked == [arg EXCEPT !.attrs["__deprecated__"] = msg]
         IN  IF category = None
             THEN IF arg.writable THEN Decorated(marked, marked)
                  ELSE Raised(SetAttrError(arg), <<>>)
             ELSE IF arg.kind = "type"
             THEN IF ~arg.writable THEN Raised(SetAttrError(arg), <<>>)
                  ELSE LET patched ==
                               [marked EXCEPT
                                   !.attrs["__new__"] = Str("warn, then __new__"),
                                   !.attrs["__init_subclass__"] =
                                       Str("warn, then __init_subclass__")]
                       IN  Decorated(patched, patched)
             ELSE IF arg.callable
             THEN IF ~arg.writable THEN Raised(SetAttrError(arg), <<>>)
                  ELSE LET wrapper == Wraps(arg)
                       IN  Decorated(
                               [wrapper EXCEPT !.attrs["__deprecated__"] = msg],
                               marked)
             ELSE Raised("TypeError", <<>>)

(***************************************************************************)
(* The applications of deprecated.                                         *)
(***************************************************************************)
\* the attributes of an object named name that was, or was not, marked
\* deprecated before
AttrsOf(name, earlier) ==
    [attr \in AttrNames |->
        IF attr = "__name__" THEN Str(name)
        ELSE IF attr = "__deprecated__" THEN earlier
        ELSE IF attr \in {"__new__", "__init_subclass__"} /\ name = "C"
        THEN Str("of object")
        ELSE None]

\* a class, int, a function, len, instances with and without __call__ and
\* with and without a __dict__
DecoratedObjects ==
    {Object("type", TRUE, TRUE, AttrsOf("C", e)) :
        e \in {None, Str("earlier")}}
    \cup {Object("type", TRUE, FALSE, AttrsOf("int", None))}
    \cup {Object("function", TRUE, TRUE, AttrsOf("f", e)) :
            e \in {None, Str("earlier")}}
    \cup {Object("function", TRUE, FALSE, AttrsOf("len", None))}
    \cup {Object("object", c, w, AttrsOf("", None)) : c, w \in BOOLEAN}
    \cup {Object("object", TRUE, TRUE, AttrsOf("", Str("earlier")))}

Messages ==
    {Message("str", ""), Message("str", "use the new name"),
     Message("str", "earlier"), Message("int", "")}

Categories == {None, Str("DeprecationWarning"), Str("UserWarning")}

DeprecatedCall(message, category, arg) ==
    [kind |-> "call", message |-> message, category |-> category, arg |-> arg]

InitDeprecated ==
    /\ input \in {DeprecatedCall(m, c, arg) :
                    m \in Messages, c \in Categories, arg \in DecoratedObjects}
    /\ value = input
    /\ trace = <<>>

ApplyDeprecated ==
    /\ trace = <<>>
    /\ value.kind = "call"
    /\ value' = deprecated(value.message, value.category, value.arg)
    /\ trace' = <<"deprecated">>
    /\ UNCHANGED input

NextDeprecated == ApplyDeprecated

SpecDeprecated == InitDeprecated /\ [][NextDeprecated]_vars

(***************************************************************************)
(* Calls made from several threads.  Each thread makes one call; a step of *)
(* the program is one statement of one thread, so the calls interleave in  *)
(* every order, one after the other included.  The heap maps a reference   *)
(* to the contents of the object it refers to: the arguments the caller of *)
(* thread t holds, and every list a call creates.  A thread is a stack of  *)
(* frames, create_VersionInfo calling the two builders, each frame with    *)
(* the references and the values of its local names.  input[t] is the call *)
(* of thread t as its caller wrote it, value the heap, the stacks and the  *)
(* outcomes, trace[t] the constructors thread t has called.                *)
(***************************************************************************)
MaxThreads == 2

Threads == 1..MaxThreads

Invocation(fn, call) == [fn |-> fn, call |-> call]

\* the arguments the caller of thread t passes
Caller(t) == [space |-> "caller", thread |-> t, fn |-> "", name |-> "args"]

\* one list per name kept at module level, shared by every call
NewList_ModuleLevel(t, fn, name) ==
    [space |-> "module", thread |-> 0, fn |-> fn, name |-> name]

\* "name = [...]" in the call of fn by thread t: a list of this call alone
NewList(t, fn, name) ==
    [space |-> "frame", thread |-> t, fn |-> fn, name |-> name]

\* the reference now refers to a list with these contents
Bind(heap, ref, contents) == (ref :> contents) @@ heap

\* list.append(x)
ListAppend(heap, ref, x) == [heap EXCEPT ![ref] = Append(@, x)]

\* list.extend(xs)
ListExtend(heap, ref, xs) == [heap EXCEPT ![ref] = @ \o xs]

\* the list strings of the call whose arguments ref refers to
Blocks(heap, ref) == heap[ref].args.strings[1]

\* info.pop(key) in place of info[key]
Subscript_Pop(heap, ref, i, key) ==
    LET info == Blocks(heap, ref)[i]
    IN  [found |-> key \in DOMAIN info,
         item  |-> IF key \in DOMAIN info THEN info[key] ELSE None,
         heap  |-> [heap EXCEPT ![ref].args.strings[1][i] =
                       [k \in DOMAIN info \ {key} |-> info[k]]]]

\* info[key] where info is strings[i]: the item, found FALSE for the
\* KeyError of a missing key, and the heap after the subscription
Subscript(heap, ref, i, key) ==
    LET info == Blocks(heap, ref)[i]
    IN  [found |-> key \in DOMAIN info,
         item  |-> IF key \in DOMAIN info THEN info[key] ELSE None,
         heap  |-> heap]

Top(t) == value.stack[t][Len(value.stack[t])]

\* thread t has yet to make its call
Idle(t) == value.stack[t] = <<>> /\ value.result[t] = None

\* thread t is about to enter fn: as its own call, or as the call
\* create_VersionInfo makes for the block it has read
Calls(t, fn) ==
    \/ Idle(t) /\ input[t].fn = fn
    \/ /\ value.stack[t] # <<>>
       /\ Top(t).fn = "create_VersionInfo"
       /\ Top(t).pc = fn

\* the arguments of the call thread t is about to enter
Arguments(t) ==
    IF value.stack[t] = <<>> THEN value.heap[Caller(t)] ELSE Top(t).call

\* thread t runs fn
Running(t, fn) == value.stack[t] # <<>> /\ Top(t).fn = fn

Log(t, names) == [trace EXCEPT ![t] = @ \o names]

\* lines 997-999: the name of the table and "kids = []"; todo are the
\* entries the statements below append, one at a time
EnterTable(t) ==
    /\ Calls(t, "create_StringFileInfo_table")
    /\ LET call  == Arguments(t)
           kids  == NewList(t, "create_StringFileInfo_table", "kids")
           frame == [fn   |-> "create_StringFileInfo_table",
                     kids |-> kids,
                     name |-> Format04X(call.lang_id)
                                  \o Format04X(call.charset_id),
                     todo |-> WellKnownKids(call.kwargs, 1)
                                  \o AdditionalKids(
                                         additional_strings(call.kwargs), 1)]
       IN  value' = [value EXCEPT !.heap = Bind(@, kids, <<>>),
                                  !.stack[t] = Append(@, frame)]
    /\ UNCHANGED <<input, trace>>

\* "kids.append(StringStruct(...))"
AppendKid(t) ==
    /\ Running(t, "create_StringFileInfo_table")
    /\ Top(t).todo # <<>>
    /\ value' = [value EXCEPT
                    !.heap = ListAppend(@, Top(t).kids, Head(Top(t).todo)),
                    !.stack[t][Len(value.stack[t])].todo = Tail(@)]
    /\ trace' = Log(t, <<"StringStruct">>)
    /\ UNCHANGED input

\* "return StringTable(name, kids)", and in create_VersionInfo
\* "string_infos.append(...)" with the table returned
ReturnTable(t) ==
    /\ Running(t, "create_StringFileInfo_table")
    /\ Top(t).todo = <<>>
    /\ LET ret   == StringTable(Top(t).name, value.heap[Top(t).kids])
           below == SubSeq(value.stack[t], 1, Len(value.stack[t]) - 1)
       IN  IF below = <<>>
           THEN value' = [value EXCEPT !.stack[t] = <<>>,
                                       !.result[t] = Some(ret)]
           ELSE LET caller == below[Len(below)]
                    call   == VarStructCall(PyInt(caller.call.lang_id),
                                            PyInt(caller.call.charset_id),
                                            <<>>)
                IN  value' = [value EXCEPT
                                 !.heap = ListAppend(@, caller.string_infos,
                                                     ret),
                                 !.stack[t] =
                                     <<[caller EXCEPT
                                           !.pc = "create_VarStruct",
                                           !.call = call]>>]
    /\ trace' = Log(t, <<"StringTable">>)
    /\ UNCHANGED input

\* lines 1043-1058: "kids = [int(lang_id), int(charset_id)]"
EnterVarStruct(t) ==
    /\ Calls(t, "create_VarStruct")
    /\ LET call  == Arguments(t)
           kids  == NewList(t, "create_VarStruct", "kids")
           frame == [fn   |-> "create_VarStruct",
                     kids |-> kids,
                     name |-> "Translation",
                     todo |-> call.additional_pairs]
       IN  value' = [value EXCEPT
                        !.heap = Bind(@, kids, <<int(call.lang_id),
                                                 int(call.charset_id)>>),
                        !.stack[t] = Append(@, frame)]
    /\ UNCHANGED <<input, trace>>

\* "kids.extend([int(lid), int(cid)])"
ExtendKids(t) ==
    /\ Running(t, "create_VarStruct")
    /\ Top(t).todo # <<>>
    /\ LET pair == Head(Top(t).todo)
       IN  value' = [value EXCEPT
                        !.heap = ListExtend(@, Top(t).kids,
                                            <<int(pair[1]), int(pair[2])>>),
                        !.stack[t][Len(value.stack[t])].todo = Tail(@)]
    /\ UNCHANGED <<input, trace>>

\* "return VarStruct(name, kids)", and in create_VersionInfo
\* "var_infos.append(...)" with the record returned, the loop going on to
\* the next block
ReturnVarStruct(t) ==
    /\ Running(t, "create_VarStruct")
    /\ Top(t).todo = <<>>
    /\ LET ret   == VarStruct(Top(t).name, value.heap[Top(t).kids])
           below == SubSeq(value.stack[t], 1, Len(value.stack[t]) - 1)
       IN  IF below = <<>>
           THEN value' = [value EXCEPT !.stack[t] = <<>>,
                                       !.result[t] = Some(ret)]
           ELSE LET caller == below[Len(below)]
                IN  value' = [value EXCEPT
                                 !.heap = ListAppend(@, caller.var_infos, ret),
                                 !.stack[t] =
                                     <<[caller EXCEPT !.pc = "loop",
                                                      !.i = @ + 1,
                                                      !.call = None]>>]
    /\ trace' = Log(t, <<"VarStruct">>)
    /\ UNCHANGED input

\* lines 1168-1223: the asserts, the defaults, the date, the fixed-file
\* info and the empty lists
EnterVersionInfo(t) ==
    /\ Idle(t)
    /\ input[t].fn = "create_VersionInfo"
    /\ LET call == Arguments(t)
           a    == call.args
           dwFileVersion_tuple == IF a.filevers = None THEN <<0, 0, 0, 0>>
                                  ELSE a.filevers[1]
           dwProductVersion_tuple ==
               ResolveProdvers(a.prodvers, dwFileVersion_tuple)
           dwFileDate == ResolveDate(a.date, call.now)
           ffi == FixedFileInfo(dwFileVersion_tuple, dwProductVersion_tuple,
                                Default(a.mask, VS_FFI_FILEFLAGSMASK),
                                Default(a.flags, VS_FF_None),
                                Default(a.OS, VOS_NT_WINDOWS32),
                                Default(a.fileType, VFT_APP),
                                Default(a.subtype, VFT2_UNKNOWN),
                                dwFileDate.date)
           kids         == NewList(t, "create_VersionInfo", "kids")
           string_infos == NewList(t, "create_VersionInfo", "string_infos")
           var_infos    == NewList(t, "create_VersionInfo", "var_infos")
           frame == [fn |-> "create_VersionInfo", pc |-> "loop", i |-> 1,
                     ffi |-> ffi, kids |-> kids,
                     string_infos |-> string_infos, var_infos |-> var_infos,
                     call |-> None]
       IN  IF \/ AssertRaises(call.debug, AllInRange(dwFileVersion_tuple))
              \/ AssertRaises(call.debug, AllInRange(dwProductVersion_tuple))
           THEN /\ value' = [value EXCEPT
                                !.result[t] =
                                    Some(Raised("AssertionError", <<>>))]
                /\ UNCHANGED trace
           ELSE /\ value' = [value EXCEPT
                                !.heap =
                                    IF a.strings = None
                                    THEN Bind(@, kids, <<>>)
                                    ELSE Bind(Bind(Bind(@, kids, <<>>),
                                                   string_infos, <<>>),
                                              var_infos, <<>>),
                                !.stack[t] = <<frame>>]
                /\ trace' = Log(t, Append(dwFileDate.calls, "FixedFileInfo"))
    /\ UNCHANGED input

\* lines 1224-1232: "for info in strings:", the three subscriptions and the
\* binding of the arguments of create_StringFileInfo_table
NextBlock(t) ==
    /\ Running(t, "create_VersionInfo")
    /\ Top(t).pc = "loop"
    /\ value.heap[Caller(t)].args.strings # None
    /\ Top(t).i <= Len(Blocks(value.heap, Caller(t)))
    /\ LET lang_id    == Subscript(value.heap, Caller(t), Top(t).i, "lang_id")
           charset_id == Subscript(lang_id.heap, Caller(t), Top(t).i,
                                   "charset_id")
           fields     == Subscript(charset_id.heap, Caller(t), Top(t).i,
                                   "fields")
           read       == Log(t, <<"info">>)
           raise(exc, heap) ==
               value' = [value EXCEPT
                            !.heap = heap,
                            !.stack[t] = <<>>,
                            !.result[t] = Some(Raised(exc, read[t]))]
       IN  /\ IF ~lang_id.found THEN raise("KeyError", lang_id.heap)
              ELSE IF ~IsIntegral(lang_id.item)
              THEN raise("ValueError", lang_id.heap)
              ELSE IF ~charset_id.found
              THEN raise("KeyError", charset_id.heap)
              ELSE IF ~IsIntegral(charset_id.item)
              THEN raise("ValueError", charset_id.heap)
              ELSE IF ~fields.found THEN raise("KeyError", fields.heap)
              ELSE IF BoundTwice(fields.item)
              THEN raise("TypeError", fields.heap)
              ELSE value' =
                       [value EXCEPT
                           !.heap = fields.heap,
                           !.stack[t][Len(value.stack[t])] =
                               [@ EXCEPT
                                   !.pc = "create_StringFileInfo_table",
                                   !.call = TableCall(int(lang_id.item),
                                                      int(charset_id.item),
                                                      fields.item)]]
           /\ trace' = read
    /\ UNCHANGED input

\* lines 1237-1245: after the loop "kids = [VarFileInfo(var_infos),
\* StringFileInfo(string_infos)]", and "return VSVersionInfo(ffi, kids)"
ReturnVersionInfo(t) ==
    /\ Running(t, "create_VersionInfo")
    /\ Top(t).pc = "loop"
    /\ LET strings == value.heap[Caller(t)].args.strings
           kids    == IF strings = None THEN value.heap[Top(t).kids]
                      ELSE <<VarFileInfo(value.heap[Top(t).var_infos]),
                             StringFileInfo(value.heap[Top(t).string_infos])>>
           made    == Log(t, IF strings = None THEN <<"VSVersionInfo">>
                             ELSE <<"VarFileInfo", "StringFileInfo",
                                    "VSVersionInfo">>)
       IN  /\ strings # None => Top(t).i > Len(strings[1])
           /\ value' = [value EXCEPT
                           !.heap = Bind(@, Top(t).kids, kids),
                           !.stack[t] = <<>>,
                           !.result[t] =
                               Some(Returned(VSVersionInfo(Top(t).ffi, kids),
                                             made[t]))]
           /\ trace' = made
    /\ UNCHANGED input

\* a time conversion, which has no statement another thread can run between
TimeConversion(t) ==
    /\ Idle(t)
    /\ input[t].fn \in {"datetime_to_filetime", "filetime_to_datetime",
                        "datetime_to_filetime_tuple"}
    /\ LET call == Arguments(t)
           ret  == CASE input[t].fn = "datetime_to_filetime" ->
                            IntValue(datetime_to_filetime(call.dt))
                     [] input[t].fn = "filetime_to_datetime" ->
                            filetime_to_datetime(call.n)
                     [] input[t].fn = "datetime_to_filetime_tuple" ->
                            TupleValue(datetime_to_filetime_tuple(call.dt))
       IN  value' = [value EXCEPT !.result[t] = Some(ret)]
    /\ trace' = Log(t, <<input[t].fn>>)
    /\ UNCHANGED input

\* the calls a thread makes: each builder, create_VersionInfo with two
\* blocks and the clock read, with a block that fails after one that
\* converts, with a version out of range and with no argument, and the three
\* time conversions
ThreadCalls ==
    <<Invocation("create_StringFileInfo_table",
                 TableCall(1033, 1200, <<<<"ExtraField", Str("text")>>,
                                         <<"Comments", Str("text")>>>>)),
      Invocation("create_VarStruct",
                 VarStructCall(PyInt(1033),
                               IntEnum("CharsetCode", "Unicode", 1200),
                               <<<<IntEnum("LanguageID", "Greek", 1032),
                                   PyInt(0)>>>>)),
      Invocation("create_VersionInfo",
                 VersionInfoCall(
                     [NoArgs EXCEPT !.filevers = Some(<<1, 2, 3, 4>>),
                                    !.strings = Some(<<EnglishBlock,
                                                       GreekBlock>>)],
                     Datetime(DayOf2020, 0, 0, utc), TRUE)),
      Invocation("create_VersionInfo",
                 VersionInfoCall(
                     [NoArgs EXCEPT
                         !.strings = Some(<<GreekBlock,
                                            [lang_id |-> PyInt(1033),
                                             fields  |-> <<>>]>>)],
                     Datetime(DayOf2020, 1, 0, utc), TRUE)),
      Invocation("create_VersionInfo",
                 VersionInfoCall(
                     [NoArgs EXCEPT !.prodvers = Some(<<2 ^ 16, 0, 0, 0>>)],
                     Datetime(DayOf2020, 0, 0, utc), TRUE)),
      Invocation("create_VersionInfo",
                 VersionInfoCall(NoArgs, Datetime(DayOf2020, 0, 0, utc),
                                 FALSE)),
      Invocation("datetime_to_filetime",
                 DatetimeValue(Datetime(DayOf2020, 0, 0, utc))),
      Invocation("filetime_to_datetime",
                 IntValue(FiletimeOfDay(DayOf2020))),
      Invocation("datetime_to_filetime_tuple",
                 DatetimeValue(Datetime(DayOf2020, 1, 1, TzNone)))>>

InitThreads ==
    /\ \E choice \in [Threads -> 1..Len(ThreadCalls)] :
           input = [t \in Threads |-> ThreadCalls[choice[t]]]
    /\ value = [heap   |-> [ref \in {Caller(t) : t \in Threads} |->
                               input[ref.thread].call],
                stack  |-> [t \in Threads |-> <<>>],
                result |-> [t \in Threads |-> None]]
    /\ trace = [t \in Threads |-> <<>>]

NextThreads ==
    \E t \in Threads :
        \/ EnterTable(t)
        \/ AppendKid(t)
        \/ ReturnTable(t)
        \/ EnterVarStruct(t)
        \/ ExtendKids(t)
        \/ ReturnVarStruct(t)
        \/ EnterVersionInfo(t)
        \/ NextBlock(t)
        \/ ReturnVersionInfo(t)
        \/ TimeConversion(t)

SpecThreads == InitThreads /\ [][NextThreads]_vars

(***************************************************************************)
(* Properties of the FILETIME <--> datetime translation.                   *)
(***************************************************************************)
\* dt.astimezone(tz): the same instant with the fields of the zone tz
astimezone(dt, tz) ==
    LET local == BigAdd(MicrosSinceEpoch(dt),
                        BigAdd(BigMulSmall(ToBig(tz.s), MicrosPerSecond),
                               ToBig(tz.us)))
        us    == BigDivMod(local, MicrosPerSecond)
        sec   == BigDivMod(us.q, SecondsPerDay)
    IN  Datetime(UNIX_EPOCH_ORDINAL + FromBig(sec.q), sec.r, us.r, tz)

\* the fields of dt are those of a datetime of the years 1..9999
InRange(dt) == MINYEAR_ORDINAL <= dt.day /\ dt.day <= MAXYEAR_ORDINAL

\* a naive datetime read as UTC, as datetime_to_filetime documents
AsUtc(dt) == IF IsNaive(dt) THEN ReplaceTzinfo(dt, utc) ELSE dt

\* seconds from 1970-01-01T00:00:00 to the second that holds the fields of dt
FieldSeconds(dt) ==
    BigAdd(BigMulSmall(ToBig(dt.day - UNIX_EPOCH_ORDINAL), SecondsPerDay),
           ToBig(dt.second))

\* EPOCH_AS_FILETIME + seconds * 10_000_000 + ticks
FiletimeAt(seconds, ticks) ==
    BigAdd(BigAdd(EPOCH_AS_FILETIME, BigMulSmall(seconds, HUNDREDS_OF_NS)),
           ToBig(ticks))

\* n mod 2^64
Mod64(n) == BigAnd(n, BigSub(BigShl(BigOne, 64), BigOne))

\* high * 2^32 + low
Join32(high, low) == BigAdd(BigShl(high, 32), low)

Filetime2020 == FiletimeOfDay(DayOf2020)

\* C1: converting a timezone-aware datetime to a FILETIME and back gives
\* the UTC datetime of exactly the same instant, at microsecond precision.
C1_RoundTripSameInstant ==
    (/\ trace = <<"datetime_to_filetime", "filetime_to_datetime">>
     /\ input.kind = "datetime"
     /\ ~IsNaive(input.dt)
     /\ InRange(astimezone(input.dt, utc)))
    => /\ value.kind = "datetime"
       /\ value.dt = astimezone(input.dt, utc)

\* C2: datetime_to_filetime returns EPOCH_AS_FILETIME + floor(seconds since
\* the Unix epoch) * 10_000_000 + microsecond * 10, the floor rounding toward
\* minus infinity, also for instants before the Unix epoch.
C2_FlooredSeconds ==
    (trace = <<"datetime_to_filetime">> /\ input.kind = "datetime")
    => LET dt == AsUtc(input.dt)
           s  == BigDivMod(MicrosSinceEpoch(dt), MicrosPerSecond).q
       IN  value.n = FiletimeAt(s, dt.microsecond * 10)

\* C3: two timezone-aware datetimes of the same instant under different UTC
\* offsets have the same FILETIME.
C3_SameInstantSameFiletime ==
    (/\ trace = <<"datetime_to_filetime">>
     /\ input.kind = "datetime"
     /\ ~IsNaive(input.dt))
    => \A tz \in Offsets :
          InRange(astimezone(input.dt, tz))
          => datetime_to_filetime(astimezone(input.dt, tz)) = value.n

\* C4: the FILETIME of a timezone-naive datetime (no tzinfo, or a tzinfo
\* without utcoffset) is the FILETIME of the same fields in UTC; no local
\* offset shifts it.
C4_NaiveIsUtc ==
    (/\ trace = <<"datetime_to_filetime">>
     /\ input.kind = "datetime"
     /\ IsNaive(input.dt))
    => value.n = datetime_to_filetime(ReplaceTzinfo(input.dt, utc))

C4_Witness ==
    /\ trace = <<"datetime_to_filetime">>
    /\ input = DatetimeValue(Datetime(DayOf2020, 0, 0, TzNone))
    /\ value.n = Filetime2020

\* C5: for a FILETIME f that a datetime represents exactly (a whole number
\* of microseconds in the years 1..9999), the pair (high, low) that
\* datetime_to_filetime_tuple gives for filetime_to_datetime(f) satisfies
\* high * 2^32 + low = f modulo 2^64.
C5_TupleOfDatetimeOfFiletime ==
    (/\ trace = <<"filetime_to_datetime", "datetime_to_filetime_tuple">>
     /\ input.kind = "int"
     /\ BigDivMod(input.n, 10).r = 0)
    => Mod64(Join32(value.high, value.low)) = Mod64(input.n)

\* C6: datetime_to_filetime_tuple(dt) is (high, low) with
\* high * 2^32 + low = datetime_to_filetime(dt) and 0 <= low < 2^32.
C6_SplitFiletime ==
    (trace = <<"datetime_to_filetime_tuple">> /\ input.kind = "datetime")
    => /\ Join32(value.high, value.low) = datetime_to_filetime(input.dt)
       /\ ~BigIsNeg(value.low)
       /\ BigLt(value.low, BigShl(BigOne, 32))

C6_Witness ==
    /\ trace = <<"datetime_to_filetime_tuple">>
    /\ input = DatetimeValue(Datetime(DayOf2020, 0, 0, utc))
    /\ value.high = ToBig(30785590)
    /\ value.low = ToBig(1761935360)

\* C7: filetime_to_datetime(f) is the UTC datetime at s seconds of the Unix
\* epoch with microsecond r // 10, where f - EPOCH_AS_FILETIME = s * 10_000_000
\* + r and 0 <= r < 10_000_000 (floored division, also below the epoch): the
\* lowest decimal digit of f is discarded and the zone is always UTC.
C7_FlooredDivmod ==
    (trace = <<"filetime_to_datetime">> /\ input.kind = "int")
    => IF value.kind = "datetime"
       THEN /\ value.dt.tzinfo = utc
            /\ InRange(value.dt)
            /\ value.dt.second \in 0..(SecondsPerDay - 1)
            /\ value.dt.microsecond \in 0..(MicrosPerSecond - 1)
            /\ \E digit \in 0..9 :
                  input.n = FiletimeAt(FieldSeconds(value.dt),
                                       value.dt.microsecond * 10 + digit)
       ELSE \/ BigLt(input.n, FiletimeOfDay(MINYEAR_ORDINAL))
            \/ BigLe(FiletimeOfDay(MAXYEAR_ORDINAL + 1), input.n)

C7_Witness ==
    /\ trace = <<"filetime_to_datetime">>
    /\ input = IntValue(BigSub(EPOCH_AS_FILETIME, BigOne))
    /\ value = DatetimeValue(Datetime(UNIX_EPOCH_ORDINAL - 1, SecondsPerDay - 1,
                                      MicrosPerSecond - 1, utc))

\* C8: the FILETIME of a datetime at or after 1601-01-01T00:00:00 UTC is not
\* negative.
C8_NonNegativeFrom1601 ==
    (/\ trace = <<"datetime_to_filetime">>
     /\ input.kind = "datetime"
     /\ BigLe(MicrosSinceEpoch(Datetime(DayOf1601, 0, 0, utc)),
              MicrosSinceEpoch(AsUtc(input.dt))))
    => ~BigIsNeg(value.n)

C8_Witness ==
    /\ trace = <<"datetime_to_filetime">>
    /\ input = DatetimeValue(Datetime(DayOf1601, 0, 0, utc))
    /\ value.n = BigZero

(***************************************************************************)
(* Properties of create_StringFileInfo_table.                              *)
(***************************************************************************)
RECURSIVE HexPlaces(_, _)
\* the places lowest digits of n in hexadecimal, upper case
HexPlaces(n, places) ==
    IF places = 0 THEN ""
    ELSE HexPlaces(n \div 16, places - 1) \o HexDigit[(n % 16) + 1]

RECURSIVE HexLength(_)
HexLength(n) == IF n < 16 THEN 1 ELSE 1 + HexLength(n \div 16)

\* n in hexadecimal, zero-padded to four digits
PaddedHex(n) == HexPlaces(n, IF HexLength(n) > 4 THEN HexLength(n) ELSE 4)

\* C9: for lang_id and charset_id in 0..65535 the name of the table is
\* exactly 8 upper case hexadecimal digits: the four of lang_id, then the
\* four of charset_id.
C9_NameIsLocaleThenCharset ==
    (/\ trace = <<"create_StringFileInfo_table">>
     /\ input.lang_id \in 0..(2 ^ 16 - 1)
     /\ input.charset_id \in 0..(2 ^ 16 - 1))
    => /\ Len(value.name) = 8
       /\ value.name = HexPlaces(input.lang_id, 4) \o HexPlaces(input.charset_id, 4)

C9_Witness ==
    /\ trace = <<"create_StringFileInfo_table">>
    /\ input.lang_id = 1032
    /\ input.charset_id = 0
    /\ value.name = "04080000"

\* C10 as stated: with no fields, the table is named by the zero-padded hex
\* of the charset code followed by that of the locale code, and has no
\* entries.
C10_CharsetThenLocale ==
    (trace = <<"create_StringFileInfo_table">> /\ input.kwargs = <<>>)
    => /\ value.name = PaddedHex(input.charset_id) \o PaddedHex(input.lang_id)
       /\ value.kids = <<>>

\* C10 as amended: with no fields, the table is named by the zero-padded hex
\* of the locale code followed by that of the charset code (the locale in
\* the high position), and has no entries.
C10_LocaleThenCharsetNoEntries ==
    (trace = <<"create_StringFileInfo_table">> /\ input.kwargs = <<>>)
    => /\ value.name = PaddedHex(input.lang_id) \o PaddedHex(input.charset_id)
       /\ value.kids = <<>>

C10_Witness ==
    /\ trace = <<"create_StringFileInfo_table">>
    /\ input = TableCall(1033, 1200, <<>>)
    /\ value = StringTable("040904B0", <<>>)

(***************************************************************************)
(* Properties of the entries of a string table.                            *)
(***************************************************************************)
\* the place of the keyword key among the keyword arguments of the call
KeywordPlace(kwargs, key) == CHOOSE i \in 1..Len(kwargs) : kwargs[i][1] = key

\* the place of key in the declared order of the well-known fields
DeclaredPlace(key) ==
    CHOOSE i \in 1..Len(WellKnownFields) : WellKnownFields[i] = key

\* C11: the entries of the table are the supplied well-known fields in the
\* declared order Comments .. SpecialBuild, whatever the order of the
\* keywords in the call, followed by every extra field in the order it was
\* supplied; no extra field precedes a well-known field.
C11_DeclaredOrderThenExtras ==
    trace = <<"create_StringFileInfo_table">>
    => \A i, j \in 1..Len(value.kids) :
          i < j =>
             LET a == value.kids[i].name
                 b == value.kids[j].name
             IN  /\ IsWellKnown(b) =>
                        IsWellKnown(a) /\ DeclaredPlace(a) < DeclaredPlace(b)
                 /\ (~IsWellKnown(a) /\ ~IsWellKnown(b)) =>
                        KeywordPlace(input.kwargs, a)
                            < KeywordPlace(input.kwargs, b)

C11_Witness ==
    /\ trace = <<"create_StringFileInfo_table">>
    /\ input.kwargs = <<<<"Vendor", Str("text")>>, <<"Comments", Str("text")>>>>
    /\ value.kids = <<StringStruct("Comments", Str("text")),
                      StringStruct("Vendor", Str("text"))>>

\* the keywords of the call that produce an entry: the well-known fields
\* that are not None, and every extra keyword
Supplied(kwargs) ==
    {i \in 1..Len(kwargs) : IsWellKnown(kwargs[i][1]) => kwargs[i][2] # None}

\* C12: the entries are exactly one (key, value) entry for each well-known
\* field whose argument is not None and one for each extra keyword, each
\* with the value unchanged; a well-known field that is absent or None has
\* no entry; with no fields at all the call returns an empty list of entries.
C12_OneEntryPerSuppliedField ==
    trace = <<"create_StringFileInfo_table">>
    => /\ value.kind = "StringTable"
       /\ Len(value.kids) = Cardinality(Supplied(input.kwargs))
       /\ \A i \in Supplied(input.kwargs) :
              \E j \in 1..Len(value.kids) :
                  value.kids[j] = [name |-> input.kwargs[i][1],
                                   val  |-> input.kwargs[i][2]]
       /\ \A j \in 1..Len(value.kids) :
              \E i \in Supplied(input.kwargs) :
                  input.kwargs[i][1] = value.kids[j].name
       /\ Supplied(input.kwargs) = {} => value.kids = <<>>

C12_Witness ==
    /\ trace = <<"create_StringFileInfo_table">>
    /\ input.kwargs = <<<<"CompanyName", None>>, <<"ExtraField", None>>>>
    /\ value.kids = <<StringStruct("ExtraField", None)>>

(***************************************************************************)
(* Properties of the translation record.                                   *)
(***************************************************************************)
\* the number an argument stands for: that of the int, or of the member of
\* LanguageID or CharsetCode
Number(x) == x.value

\* C13: create_VarStruct(lang_id, charset_id, *pairs) returns a record
\* named 'Translation' whose value list is the flat list [int(lang_id),
\* int(charset_id), int(l1), int(c1), ...] of length 2 * (1 + n): the base
\* pair first, then the n additional pairs in argument order, within each
\* pair the locale before the charset.
C13_FlatTranslationList ==
    trace = <<"create_VarStruct">>
    => LET n == Len(input.additional_pairs)
       IN  /\ value.kind = "VarStruct"
           /\ value.name = "Translation"
           /\ Len(value.kids) = 2 * (1 + n)
           /\ value.kids[1] = Number(input.lang_id)
           /\ value.kids[2] = Number(input.charset_id)
           /\ \A i \in 1..n :
                  /\ value.kids[2 * i + 1] = Number(input.additional_pairs[i][1])
                  /\ value.kids[2 * i + 2] = Number(input.additional_pairs[i][2])
           /\ \A k \in 1..Len(value.kids) : value.kids[k] \in Int

\* create_VarStruct(LanguageID.Greek, 0, (LanguageID.Japanese,
\* CharsetCode.Japan))
C13_Witness ==
    /\ trace = <<"create_VarStruct">>
    /\ input = VarStructCall(IntEnum("LanguageID", "Greek", 1032), PyInt(0),
                             <<<<IntEnum("LanguageID", "Japanese", 1041),
                                 IntEnum("CharsetCode", "Japan", 932)>>>>)
    /\ value = VarStruct("Translation", <<1032, 0, 1041, 932>>)

(***************************************************************************)
(* Properties of create_VersionInfo.                                       *)
(***************************************************************************)
\* the call returned a tree
ReturnedTree == trace = <<"create_VersionInfo">> /\ value.kind = "returned"

\* the fixed-file-info record of the returned tree
Ffi == value.ret.ffi

\* C14: every omitted (None) parameter resolves, independently of the
\* others, to its default: filevers to (0, 0, 0, 0), mask to 0x3F, flags to
\* 0x0, OS to 0x40004, fileType to 0x1, subtype to 0x0; the call without
\* arguments returns a tree with both version tuples (0, 0, 0, 0), these five
\* defaults and no children.
C14_OmittedResolvesToDefault ==
    /\ ReturnedTree =>
          /\ input.args.filevers = None => Ffi.filevers = <<0, 0, 0, 0>>
          /\ input.args.mask = None     => Ffi.mask = 63
          /\ input.args.flags = None    => Ffi.flags = 0
          /\ input.args.OS = None       => Ffi.OS = 4 * 2 ^ 16 + 4
          /\ input.args.fileType = None => Ffi.fileType = 1
          /\ input.args.subtype = None  => Ffi.subtype = 0
    /\ (trace = <<"create_VersionInfo">> /\ input.args = NoArgs) =>
          /\ value.kind = "returned"
          /\ Ffi.filevers = <<0, 0, 0, 0>>
          /\ Ffi.prodvers = <<0, 0, 0, 0>>
          /\ value.ret.kids = <<>>

C14_Witness ==
    /\ ReturnedTree
    /\ input.args = NoArgs
    /\ Ffi.mask = 63 /\ Ffi.OS = 262148 /\ Ffi.fileType = 1

\* C15: when prodvers is omitted the product version of the tree equals the
\* resolved file version (the supplied filevers, or (0, 0, 0, 0)); a supplied
\* prodvers is used as given and leaves the file version as resolved.
C15_ProdversFollowsFilevers ==
    ReturnedTree =>
       LET resolved == IF input.args.filevers = None THEN <<0, 0, 0, 0>>
                       ELSE input.args.filevers[1]
       IN  /\ Ffi.filevers = resolved
           /\ input.args.prodvers = None => Ffi.prodvers = resolved
           /\ input.args.prodvers # None => Ffi.prodvers = input.args.prodvers[1]

C15_Witness ==
    /\ ReturnedTree
    /\ input.args.filevers = Some(<<1, 2, 3, 4>>)
    /\ input.args.prodvers = None
    /\ Ffi.prodvers = <<1, 2, 3, 4>>

\* the supplied version tuples of the call
SuppliedVersions ==
    {input.args[name][1] :
        name \in {n \in {"filevers", "prodvers"} : input.args[n] # None}}

OutOfRange(v) == v < 0 \/ v >= 65536

\* C16: if an element of a supplied filevers or prodvers is outside
\* 0 <= v < 65536 the call fails with a ValueError and returns no tree; if
\* every element of both tuples is in range the validation never fails.
C16_OutOfRangeIsValueError ==
    trace = <<"create_VersionInfo">> =>
       IF \E t \in SuppliedVersions : \E k \in 1..Len(t) : OutOfRange(t[k])
       THEN value.kind = "raised" /\ value.exc = "ValueError"
       ELSE ~(value.kind = "raised"
              /\ value.exc \in {"ValueError", "AssertionError"})

\* C17: if a supplied filevers or prodvers does not hold exactly four
\* elements the call fails before any record is built.
C17_WrongLengthIsRejected ==
    (/\ trace = <<"create_VersionInfo">>
     /\ \E t \in SuppliedVersions : Len(t) # 4)
    => value.kind = "raised" /\ value.calls = <<>>

\* C18: when the call rejects a version tuple, no record constructor has
\* been called, the wall clock has not been read and no block of strings has
\* been touched; no tree is returned.
C18_RejectedBeforeAnyCall ==
    (/\ trace = <<"create_VersionInfo">>
     /\ value.kind = "raised"
     /\ value.exc = "AssertionError")
    => /\ value.calls = <<>>
       /\ "ret" \notin DOMAIN value

C18_Witness ==
    /\ trace = <<"create_VersionInfo">>
    /\ input.args.prodvers = Some(<<0, 0, 0, 0 - 1>>)
    /\ input.args.date = None
    /\ input.args.strings = Some(<<EnglishBlock>>)
    /\ value = Raised("AssertionError", <<>>)

\* C19: mask, flags, OS, fileType and subtype are not validated: whatever
\* integers are supplied, alone or together, the call succeeds and the tree
\* carries each supplied value in its field.
C19_FlagsStoredAsSupplied ==
    /\ ReturnedTree =>
          \A name \in {"mask", "flags", "OS", "fileType", "subtype"} :
             input.args[name] # None => Ffi[name] = input.args[name][1]
    /\ (/\ trace = <<"create_VersionInfo">>
        /\ input.args.filevers = None
        /\ input.args.prodvers = None
        /\ input.args.strings = None) => value.kind = "returned"

C19_Witness ==
    /\ ReturnedTree
    /\ input.args.fileType = Some(0 - 1)
    /\ input.args.subtype = Some(2 ^ 16 + 63)
    /\ Ffi.fileType = 0 - 1
    /\ Ffi.subtype = 65599

\* C20: a supplied (high, low) pair is the date of the tree as it is,
\* whatever the integers; a supplied datetime d gives the date
\* datetime_to_filetime_tuple(d); the pair (30785590, 1761935360) and the
\* datetime 2020-01-01T00:00:00 UTC both give (30785590, 1761935360).
C20_DateByVariant ==
    (ReturnedTree /\ input.args.date # None) =>
       LET date == input.args.date[1]
           pair == <<ToBig(30785590), ToBig(1761935360)>>
       IN  /\ date.kind = "tuple" => Ffi.date = <<date.high, date.low>>
           /\ date.kind = "datetime" =>
                 Ffi.date = datetime_to_filetime_tuple(date.dt)
           /\ date \in {TupleValue(pair),
                        DatetimeValue(Datetime(DayOf2020, 0, 0, utc))}
                 => Ffi.date = pair

C20_Witness ==
    /\ ReturnedTree
    /\ input.args.date = Some(DatetimeValue(Datetime(DayOf2020, 0, 0, utc)))
    /\ Ffi.date = <<ToBig(30785590), ToBig(1761935360)>>

\* the number of times the call read the wall clock
ClockReads ==
    LET IsClock(call) == call = "datetime.now"
    IN  Len(SelectSeq(value.calls, IsClock))

\* the call ended at one of the assert statements on the version tuples
Rejected == value.kind = "raised" /\ value.exc = "AssertionError"

\* the outcome of the call of the state, had the wall clock shown now
OutcomeAt(now) ==
    create_VersionInfo(
        input.args.filevers, input.args.prodvers, input.args.mask,
        input.args.flags, input.args.OS, input.args.fileType,
        input.args.subtype, input.args.date, input.args.strings,
        now, input.debug)

\* C21: the wall clock is read only when date is omitted: a call that gets
\* past the checks of the version tuples then reads it exactly once and the
\* date of the tree is datetime_to_filetime_tuple of that UTC instant; when
\* date is supplied the clock is never read and the outcome is the same
\* whatever the clock shows.
C21_ClockOnlyForOmittedDate ==
    trace = <<"create_VersionInfo">> =>
       /\ ClockReads = IF input.args.date = None /\ ~Rejected THEN 1 ELSE 0
       /\ (ReturnedTree /\ input.args.date = None) =>
             /\ Ffi.date = datetime_to_filetime_tuple(input.now)
             /\ input.now = Datetime(DayOf2020, 0, 0, utc) =>
                   Ffi.date = <<ToBig(30785590), ToBig(1761935360)>>
       /\ input.args.date # None => \A now \in Clocks : OutcomeAt(now) = value

C21_Witness ==
    /\ ReturnedTree
    /\ input.args.date = None
    /\ input.args.strings = Some(<<EnglishBlock>>)
    /\ input.now = Datetime(DayOf2020, 0, 0, utc)
    /\ ClockReads = 1
    /\ value.calls[1] = "datetime.now"
    /\ Ffi.date = <<ToBig(30785590), ToBig(1761935360)>>

\* the children of the returned tree
Kids == value.ret.kids

\* C22: for a strings sequence of n >= 1 blocks the returned tree has
\* exactly two children, a VarFileInfo of n translation records and then a
\* StringFileInfo of n string tables; the i-th translation record is
\* [int(lang_id), int(charset_id)] of block i alone and the i-th string table
\* is create_StringFileInfo_table of block i, both in block order.
C22_OneRecordAndTablePerBlock ==
    (/\ ReturnedTree
     /\ input.args.strings # None
     /\ Len(input.args.strings[1]) >= 1) =>
       LET strings == input.args.strings[1]
           n       == Len(strings)
       IN  /\ Len(Kids) = 2
           /\ Kids[1].kind = "VarFileInfo"
           /\ Kids[2].kind = "StringFileInfo"
           /\ Len(Kids[1].kids) = n
           /\ Len(Kids[2].kids) = n
           /\ \A i \in 1..n :
                 /\ Kids[1].kids[i] =
                       [kind |-> "VarStruct", name |-> "Translation",
                        kids |-> <<Number(strings[i].lang_id),
                                   Number(strings[i].charset_id)>>]
                 /\ Kids[2].kids[i] =
                       create_StringFileInfo_table(
                           Number(strings[i].lang_id),
                           Number(strings[i].charset_id), strings[i].fields)

C22_Witness ==
    /\ ReturnedTree
    /\ input.args.strings = Some(<<EnglishBlock, GreekBlock>>)
    /\ Kids[1] = VarFileInfo(<<VarStruct("Translation", <<1033, 1200>>),
                               VarStruct("Translation", <<1032, 0>>)>>)
    /\ Kids[2].kids[1].name = "040904B0"
    /\ Kids[2].kids[2] = StringTable("04080000", <<>>)

\* C23: when strings is None the returned tree has no children, neither a
\* VarFileInfo nor a StringFileInfo, whatever the other arguments are.
C23_NoStringsNoChildren ==
    (ReturnedTree /\ input.args.strings = None) => Kids = <<>>

C23_Witness ==
    /\ ReturnedTree
    /\ input.args.strings = None
    /\ input.args.date = Some(TupleValue(<<ToBig(30785590), ToBig(1761935360)>>))
    /\ Kids = <<>>
    /\ value.calls = <<"FixedFileInfo", "VSVersionInfo">>

\* C28: when strings is an empty sequence the returned tree has exactly two
\* children, a VarFileInfo without records and then a StringFileInfo without
\* tables; the tree has no children only when strings is None.
C28_EmptyStringsTwoEmptyContainers ==
    ReturnedTree =>
       /\ input.args.strings = Some(<<>>) =>
             Kids = <<[kind |-> "VarFileInfo", kids |-> <<>>],
                      [kind |-> "StringFileInfo", kids |-> <<>>]>>
       /\ Kids = <<>> => input.args.strings = None

C28_Witness ==
    /\ ReturnedTree
    /\ input.args.strings = Some(<<>>)
    /\ Len(Kids) = 2
    /\ Kids[1].kids = <<>> /\ Kids[2].kids = <<>>

\* the exceptions the conversion of the block can end with: a missing key,
\* a locale or charset that is no integer, a field named like a parameter
Failures(block) ==
    (IF {"lang_id", "charset_id", "fields"} \subseteq DOMAIN block
     THEN {} ELSE {"KeyError"})
    \cup (IF \E key \in {"lang_id", "charset_id"} \cap DOMAIN block :
                block[key].type = "str"
          THEN {"ValueError"} ELSE {})
    \cup (IF /\ "fields" \in DOMAIN block
             /\ \E k \in 1..Len(block.fields) :
                   block.fields[k][1] \in {"lang_id", "charset_id"}
          THEN {"TypeError"} ELSE {})

\* the number of blocks the call read
BlockReads ==
    LET IsBlock(call) == call = "info"
    IN  Len(SelectSeq(value.calls, IsBlock))

\* C26: if the conversion of a block of strings fails (a missing key, a
\* code that is no integer), the call raises that failure as it is and
\* returns no tree, however many earlier blocks were converted; the blocks
\* after the failing one are not read and nothing is tried again.
C26_BlockFailurePropagates ==
    (/\ trace = <<"create_VersionInfo">>
     /\ input.args.strings # None
     /\ \E i \in 1..Len(input.args.strings[1]) :
           Failures(input.args.strings[1][i]) # {})
    => LET strings == input.args.strings[1]
           first   == CHOOSE i \in 1..Len(strings) :
                         /\ Failures(strings[i]) # {}
                         /\ \A j \in 1..(i - 1) : Failures(strings[j]) = {}
       IN  /\ value.kind = "raised"
           /\ "ret" \notin DOMAIN value
           /\ ~Rejected =>
                 /\ value.exc \in Failures(strings[first])
                 /\ BlockReads = first

C26_Witness ==
    /\ trace = <<"create_VersionInfo">>
    /\ input.args.strings =
          Some(<<EnglishBlock, GreekBlock,
                 [lang_id |-> PyInt(1032), fields |-> <<>>]>>)
    /\ value.kind = "raised"
    /\ value.exc = "KeyError"
    /\ BlockReads = 3
    /\ value.calls[Len(value.calls) - 1] = "VarStruct"

\* the names of the entries of a string table
EntryNames(table) == {table.kids[k].name : k \in 1..Len(table.kids)}

\* C30: if the fields of a block hold a key 'lang_id' or 'charset_id' the
\* call fails and returns no tree; such a key is never an entry of a string
\* table, and the keys of every string table of a returned tree are
\* pairwise distinct.
C30_ParameterNamedFieldFails ==
    /\ (/\ trace = <<"create_VersionInfo">>
        /\ input.args.strings # None
        /\ \E i \in 1..Len(input.args.strings[1]) :
              "TypeError" \in Failures(input.args.strings[1][i]))
       => /\ value.kind = "raised"
          /\ "ret" \notin DOMAIN value
    /\ (ReturnedTree /\ input.args.strings # None) =>
          \A i \in 1..Len(Kids[2].kids) :
             LET table == Kids[2].kids[i]
             IN  /\ EntryNames(table) \cap {"lang_id", "charset_id"} = {}
                 /\ Cardinality(EntryNames(table)) = Len(table.kids)

C30_Witness ==
    /\ trace = <<"create_VersionInfo">>
    /\ input.args.strings =
          Some(<<Block(PyInt(1033), PyInt(1200),
                       <<<<"Comments", Str("text")>>,
                         <<"charset_id", Str("text")>>>>)>>)
    /\ value = Raised("TypeError", <<"FixedFileInfo", "info">>)

(***************************************************************************)
(* The width of a FILETIME.                                                *)
(***************************************************************************)
\* 0 <= n < 2^bits
IsUnsigned(n, bits) == ~BigIsNeg(n) /\ BigLt(n, BigShl(BigOne, bits))

\* the instant of dt lies between 1601-01-01T00:00:00 UTC and
\* 9999-12-31T23:59:59.999999 UTC
FiletimeEra(dt) ==
    LET instant == MicrosSinceEpoch(AsUtc(dt))
    IN  /\ BigLe(MicrosSinceEpoch(Datetime(DayOf1601, 0, 0, utc)), instant)
        /\ BigLe(instant,
                 MicrosSinceEpoch(Datetime(MAXYEAR_ORDINAL, SecondsPerDay - 1,
                                           MicrosPerSecond - 1, utc)))

\* C29: for every datetime from 1601-01-01T00:00:00 UTC to
\* 9999-12-31T23:59:59.999999 UTC, datetime_to_filetime is below 2^64 and
\* datetime_to_filetime_tuple returns (high, low) with 0 <= high < 2^32 and
\* 0 <= low < 2^32: the date fits two unsigned 32-bit words.
C29_FitsTwoUnsignedWords ==
    (input.kind = "datetime" /\ FiletimeEra(input.dt)) =>
       /\ trace = <<"datetime_to_filetime">> => IsUnsigned(value.n, 64)
       /\ trace = <<"datetime_to_filetime_tuple">> =>
             /\ IsUnsigned(value.high, 32)
             /\ IsUnsigned(value.low, 32)

C29_Witness ==
    /\ trace = <<"datetime_to_filetime_tuple">>
    /\ input = DatetimeValue(Datetime(MAXYEAR_ORDINAL, SecondsPerDay - 1,
                                      MicrosPerSecond - 1, utc))
    /\ value.high = ToBig(617110110)
    /\ IsUnsigned(value.low, 32)
    /\ ~IsUnsigned(value.low, 31)

(***************************************************************************)
(* Properties of deprecated.                                               *)
(***************************************************************************)
\* C27: whenever deprecated(message, category=c) is applied without error
\* to a class or a callable, for c None or a warning category, the object it
\* returns has the attribute __deprecated__ equal to message.
C27_ReturnedObjectIsMarked ==
    (trace = <<"deprecated">> /\ value.kind = "returned") =>
       /\ input.message.type = "str"
       /\ value.ret.attrs["__deprecated__"] = <<input.message.text>>

C27_Witness ==
    /\ trace = <<"deprecated">>
    /\ input.message = Message("str", "use the new name")
    /\ input.category = Str("DeprecationWarning")
    /\ input.arg.kind = "function"
    /\ input.arg.attrs["__deprecated__"] = Str("earlier")
    /\ value.kind = "returned"
    /\ value.ret.attrs["__wrapped__"] # None
    /\ value.ret.attrs["__deprecated__"] = Str("use the new name")

(***************************************************************************)
(* Properties of the calls made from several threads.                      *)
(***************************************************************************)
\* thread t has made its call, which returned or raised
Finished(t) == value.result[t] # None

\* the outcome of thread t
Outcome(t) == value.result[t][1]

\* the outcome of the call when no other call is made
Alone(inv) ==
    LET call == inv.call
    IN  CASE inv.fn = "create_StringFileInfo_table" ->
                 create_StringFileInfo_table(call.lang_id, call.charset_id,
                                             call.kwargs)
          [] inv.fn = "create_VarStruct" ->
                 create_VarStruct(call.lang_id, call.charset_id,
                                  call.additional_pairs)
          [] inv.fn = "create_VersionInfo" ->
                 create_VersionInfo(
                     call.args.filevers, call.args.prodvers, call.args.mask,
                     call.args.flags, call.args.OS, call.args.fileType,
                     call.args.subtype, call.args.date, call.args.strings,
                     call.now, call.debug)
          [] inv.fn = "datetime_to_filetime" ->
                 IntValue(datetime_to_filetime(call.dt))
          [] inv.fn = "filetime_to_datetime" -> filetime_to_datetime(call.n)
          [] inv.fn = "datetime_to_filetime_tuple" ->
                 TupleValue(datetime_to_filetime_tuple(call.dt))

\* C24: no operation mutates its inputs: after create_VersionInfo,
\* create_StringFileInfo_table or create_VarStruct has returned or failed,
\* the arguments its caller holds (the version tuples, the date, the
\* strings sequence, every block dict and every fields mapping) have the
\* contents they had before the call.
C24_InputsKeepTheirContents ==
    \A t \in Threads :
        Finished(t) => value.heap[Caller(t)] = input[t].call

\* a create_VersionInfo that returned a tree with a table of three entries
\* and one that failed on its second block, each with its arguments as
\* they were
C24_Witness ==
    \E t, u \in Threads :
        /\ Finished(t)
        /\ input[t].fn = "create_VersionInfo"
        /\ Outcome(t).kind = "returned"
        /\ Len(Outcome(t).ret.kids) = 2
        /\ Len(Outcome(t).ret.kids[2].kids[1].kids) = 3
        /\ value.heap[Caller(t)] = input[t].call
        /\ Finished(u)
        /\ input[u].fn = "create_VersionInfo"
        /\ Outcome(u).kind = "raised"
        /\ Outcome(u).exc = "KeyError"
        /\ value.heap[Caller(u)] = input[u].call

\* C25: every invocation is independent of every other: however the calls
\* of the threads interleave or follow one another, the result or the error
\* of each call is the one the call produces alone with the same arguments
\* and the same clock reading, and the program keeps no object beside the
\* arguments of the callers and the lists of the calls themselves.
C25_EachCallAsIfAlone ==
    /\ \A t \in Threads : Finished(t) => Outcome(t) = Alone(input[t])
    /\ \A ref \in DOMAIN value.heap :
           \/ ref.space = "caller"
           \/ ref.space = "frame" /\ ref.thread \in Threads

\* a create_VersionInfo has returned its tree of two tables while another
\* thread is inside create_StringFileInfo_table for a block of its own
\* call, an entry already appended
C25_Witness ==
    \E t, u \in Threads :
        /\ t # u
        /\ Finished(t)
        /\ input[t].fn = "create_VersionInfo"
        /\ Outcome(t).kind = "returned"
        /\ Len(Outcome(t).ret.kids) = 2
        /\ Outcome(t) = Alone(input[t])
        /\ input[u].fn = "create_VersionInfo"
        /\ Running(u, "create_StringFileInfo_table")
        /\ value.heap[Top(u).kids] # <<>>

====
